---- MODULE Spec2Model ----
(***************************************************************************)
(* Model of the sc2stats wikitext scraper (gram12321/sc2stats).            *)
(*                                                                         *)
(* Strings are sequences of one-character strings, so that the parser's    *)
(* string conversions (re.sub, strip, lower, replace, sorted) are computed *)
(* as the code computes them.  Python objects carry an allocation id, so   *)
(* that "the same instance" (Python's `is`) can be told from "an equal     *)
(* object" (Python's `==`).                                                *)
(***************************************************************************)
EXTENDS Integers, Sequences, FiniteSets, TLC

VARIABLES
    players_cache,   \* DataParser.players_cache : slug -> Player
    teams_cache,     \* DataParser.teams_cache   : sorted slug pair -> Team
    nextId,          \* number of Player/Team objects allocated so far
    phase,           \* position of the driver that calls the cache
    calls,           \* number of cache calls the driver has made
    ret,             \* the argument and the return value of the last call
    plog,            \* history: (canonical slug asked for, instance returned)
    tlog,            \* history: (slug of 1st arg, slug of 2nd arg, instance)
    wikitext,        \* the page text: the match blocks found by the marker regex
    tournament,      \* the Tournament handed to parse_matches_from_wikitext
    pc,              \* position in parse_matches_from_wikitext
    i,               \* index of the marker the loop handles next (from 1)
    processed_matches,   \* local of the call: unique_key -> Match (its match_id)
    existing_match_ids,  \* local of the call: raw markers of the appended matches
    run,             \* history: how the current call started and what it found
    clean,           \* history: the same call on the page without the failing blocks
    content,         \* the match block handed to _create_match_from_wikitext
    match,           \* the Match it built
    page_text,       \* the characters of a page handed to the block extraction
    marker_pos,      \* the position the marker regex reported (from 0)
    match_content,   \* what _extract_match_content_at_position returned
    score_read,      \* what the last read of Match.score returned
    fetch_plan,      \* what the client answers for each slug of the batch
    batch_pc,        \* position in scrape_multiple_tournaments
    slug_index,      \* index of the slug the batch loop handles (from 1)
    players_cache_by_name,   \* DataParser.players_cache_by_name : name -> Player
    teams_cache_by_key,      \* DataParser.teams_cache_by_key : "p1+p2" -> Team
    page_content,    \* the page scrape_tournament fetched
    tournament_data, \* what scrape_tournament returned
    all_tournaments, \* local of the batch: the tournaments scraped
    all_players,     \* local of the batch: name -> player
    all_teams,       \* local of the batch: team key -> team
    all_matches,     \* local of the batch: the matches of all tournaments
    result,          \* what scrape_multiple_tournaments returned
    max_retries,     \* sc2_scraper: config.max_retries
    tasks,           \* sc2_scraper.SC2Scraper.tasks
    task_index,      \* scrape_all: index of the task the loop handles (from 1)
    scrape_pc,       \* position in scrape_all
    results,         \* scrape_all: the local list results
    session_results, \* sc2_scraper.SC2Scraper.results
    scrape_ret,      \* what the last scrape_all returned
    attempts,        \* history: queued task -> _scrape_tournament calls made for it
    next_origin,     \* history: number of tasks queued so far, plus one
    enh_tasks,       \* EnhancedScraper.tasks
    enh_index,       \* process_tasks: index of the task the loop handles (from 1)
    enh_pc,          \* position in process_tasks
    enh_results,     \* process_tasks: the local list results
    enh_session_results, \* EnhancedScraper.results
    processed_slugs, \* EnhancedScraper.processed_slugs
    enh_ret,         \* what the last process_tasks returned
    enh_added,       \* history: add_task calls made by the caller
    player_id_map,   \* database_inserter: player name -> player id
    team_id_map,     \* database_inserter: (name, name) -> team id
    db_players,      \* the table players: liquipedia_slug -> id
    db_teams,        \* the table teams: (player1_id, player2_id) -> id
    db_next_id,      \* the id the database gives to its next new row
    insert_player_log,   \* history: the calls of inserter.insert_player
    insert_team_log,     \* history: the calls of inserter.insert_team
    team_id_log      \* history: the calls of get_or_create_team_id

cacheVars == <<players_cache, teams_cache, nextId>>
driverVars == <<phase, calls, ret, plog, tlog>>
pageVars ==
    <<wikitext, tournament, pc, i, processed_matches, existing_match_ids, run,
      clean>>
matchVars == <<content, match>>
extractVars == <<page_text, marker_pos, match_content>>
scoreVars == <<score_read>>
batchVars ==
    <<fetch_plan, batch_pc, slug_index, players_cache_by_name, teams_cache_by_key,
      page_content, tournament_data, all_tournaments, all_players, all_teams,
      all_matches, result>>
queueVars ==
    <<max_retries, tasks, task_index, scrape_pc, results, session_results,
      scrape_ret, attempts, next_origin>>
enhVars ==
    <<enh_tasks, enh_index, enh_pc, enh_results, enh_session_results,
      processed_slugs, enh_ret, enh_added>>
dbVars ==
    <<player_id_map, team_id_map, db_players, db_teams, db_next_id,
      insert_player_log, insert_team_log, team_id_log>>
toolVars == <<queueVars, enhVars, dbVars>>
vars ==
    <<players_cache, teams_cache, nextId, phase, calls, ret, plog, tlog,
      wikitext, tournament, pc, i, processed_matches, existing_match_ids, run,
      clean, content, match, page_text, marker_pos, match_content, score_read,
      fetch_plan, batch_pc, slug_index, players_cache_by_name, teams_cache_by_key,
      page_content, tournament_data, all_tournaments, all_players, all_teams,
      all_matches, result, max_retries, tasks, task_index, scrape_pc, results,
      session_results, scrape_ret, attempts, next_origin, enh_tasks, enh_index,
      enh_pc, enh_results, enh_session_results, processed_slugs, enh_ret,
      enh_added, player_id_map, team_id_map, db_players, db_teams, db_next_id,
      insert_player_log, insert_team_log, team_id_log>>

----------------------------------------------------------------------------
(* Bounds of the model *)

MaxNameLen == 3      \* longest raw player name handed to the player cache
MaxOtherCalls == 1   \* cache calls interleaved between two calls compared
MaxCalls == 5        \* cache calls of one session that asks for players and teams
MaxMaps == 2         \* map templates in one match block
MaxScore == 2        \* largest aggregate score in one match block

----------------------------------------------------------------------------
(* Strings *)

Alphabet == {"a", "A", " ", "_", "{"}

\* Raw names of length 1..MaxNameLen over Alphabet
Names == UNION {[1..n -> Alphabet] : n \in 1..MaxNameLen}

\* Plain names, as they appear in well-formed opponent templates
PoolNames == {<<"a">>, <<"b">>, <<"c">>}

\* Code point of a character (Python compares str by code point)
CharCode(c) ==
    CASE c = " " -> 32
      [] c = "A" -> 65
      [] c = "_" -> 95
      [] c = "a" -> 97
      [] c = "b" -> 98
      [] c = "c" -> 99
      [] c = "d" -> 100
      [] c = "{" -> 123
      [] c = "}" -> 125

RECURSIVE StrLess(_, _)
\* s < t for Python str: lexicographic by code point
StrLess(s, t) ==
    IF t = <<>> THEN FALSE
    ELSE IF s = <<>> THEN TRUE
    ELSE IF Head(s) = Head(t) THEN StrLess(Tail(s), Tail(t))
    ELSE CharCode(Head(s)) < CharCode(Head(t))

\* re.sub(r'[{}]', '', name)
SubBraces(s) == SelectSeq(s, LAMBDA c : c \notin {"{", "}"})

RECURSIVE LStrip(_)
LStrip(s) == IF s # <<>> /\ Head(s) = " " THEN LStrip(Tail(s)) ELSE s

RECURSIVE RStrip(_)
RStrip(s) ==
    IF s # <<>> /\ s[Len(s)] = " " THEN RStrip(SubSeq(s, 1, Len(s) - 1)) ELSE s

\* str.strip()
Strip(s) == RStrip(LStrip(s))

\* str.lower()
Lower(s) == [k \in 1..Len(s) |-> IF s[k] = "A" THEN "a" ELSE s[k]]

\* str.replace(' ', '_')
ReplaceSpaces(s) == [k \in 1..Len(s) |-> IF s[k] = " " THEN "_" ELSE s[k]]

\* sorted([x, y]) of two str (stable: equal elements keep their order)
Sorted2(x, y) == IF StrLess(y, x) THEN <<y, x>> ELSE <<x, y>>

----------------------------------------------------------------------------
(* Olditeration DataParser: the entity caches *)

EmptyDict == [k \in {} |-> k]

\* A mutant of CleanName: trims before it removes the braces
CleanName_TrimFirst(name) == SubBraces(Strip(name))

\* clean_name = re.sub(r'[{}]', '', name).strip()
CleanName(name) == Strip(SubBraces(name))

\* slug = clean_name.lower().replace(' ', '_')
SlugOf(clean_name) == ReplaceSpaces(Lower(clean_name))

\* Player(name=clean_name, liquipedia_slug=slug, nationality=None, race=None)
Player(id, clean_name, slug) ==
    [id |-> id, name |-> clean_name, liquipedia_slug |-> slug]

\* DataParser._get_or_create_player: the Player returned, the cache and the
\* allocation counter after the call
GetOrCreatePlayer(cache, nid, name) ==
    LET clean_name == CleanName(name)
        slug == SlugOf(clean_name)
    IN  IF slug \in DOMAIN cache
        THEN [player |-> cache[slug], cache |-> cache, nextId |-> nid]
        ELSE [player |-> Player(nid, clean_name, slug),
              cache |-> cache @@ (slug :> Player(nid, clean_name, slug)),
              nextId |-> nid + 1]

\* A mutant of TeamKey: the key keeps the order of the arguments
TeamKey_Unsorted(player1, player2) ==
    <<player1.liquipedia_slug, player2.liquipedia_slug>>

\* team_key = tuple(sorted([player1.liquipedia_slug, player2.liquipedia_slug]))
TeamKey(player1, player2) ==
    Sorted2(player1.liquipedia_slug, player2.liquipedia_slug)

\* Team(name=name, player1=player1, player2=player2)
Team(id, name, player1, player2) ==
    [id |-> id, name |-> name, player1 |-> player1, player2 |-> player2]

\* DataParser._get_or_create_team
GetOrCreateTeam(cache, nid, name, player1, player2) ==
    LET team_key == TeamKey(player1, player2)
    IN  IF team_key \in DOMAIN cache
        THEN [team |-> cache[team_key], cache |-> cache, nextId |-> nid]
        ELSE [team |-> Team(nid, name, player1, player2),
              cache |-> cache @@ (team_key :> Team(nid, name, player1, player2)),
              nextId |-> nid + 1]

\* f"{player1.name} + {player2.name}"
DisplayName(player1, player2) == player1.name \o <<" ", "+", " ">> \o player2.name

\* DataParser.__init__
NewParser ==
    /\ players_cache = EmptyDict
    /\ teams_cache = EmptyDict
    /\ nextId = 0

----------------------------------------------------------------------------
(* Olditeration data model: Team, Game, Match, Tournament *)

\* Optional[T]: None is the empty tuple, a value x is <<x>>
None == <<>>
Some(x) == <<x>>

\* Player.__eq__: same liquipedia_slug
PlayerEq(p, q) == p.liquipedia_slug = q.liquipedia_slug

\* Team.__eq__: the same set of player slugs
TeamEq(t, u) ==
    {t.player1.liquipedia_slug, t.player2.liquipedia_slug}
        = {u.player1.liquipedia_slug, u.player2.liquipedia_slug}

\* game.winner == team, for an Optional[Team] winner (None equals no Team)
WinnerIs(winner, team) == winner # None /\ TeamEq(winner[1], team)

\* Game(game_number, map_name, winner, duration_seconds=None)
Game(game_number, map_name, winner) ==
    [game_number |-> game_number, map_name |-> map_name, winner |-> winner]

\* Tournament(name=..., liquipedia_slug=...): no matches, players or teams
NewTournament ==
    [liquipedia_slug |-> <<"e", "/", "1">>,
     matches |-> <<>>, players |-> {}, teams |-> {}]

\* tournament.players.update(values), for values that are pairwise unequal:
\* a Player equal to one already in the set is not added
PlayersUpdate(s, values) ==
    s \cup {x \in values : ~ \E y \in s : PlayerEq(y, x)}

\* tournament.teams.update(values), likewise
TeamsUpdate(s, values) ==
    s \cup {x \in values : ~ \E y \in s : TeamEq(y, x)}

----------------------------------------------------------------------------
(* Olditeration DataParser: from one match block to a Match *)

\* What the regular expressions of the parser find in one match block:
\*   marker     the \w+ token in front of "={{Match"
\*   balanced   whether the brace counter returns to zero after the marker
\*   opponents  (p1_1, p1_2, p2_1, p2_2), or None when a side is incomplete
\*   bestof     the digits after "bestof="
\*   maps       the (index, winner) pairs the map pattern matches, in order
\*   score1/2   the digits the score patterns match, or NoScore
NoScore == -1
MapName == <<"m">>
UnknownMap == <<"U">>

\* A digit string beyond the interpreter's limit for int(): int() raises
\* ValueError (CPython: 4300 digits)
HugeDigits == "9999..."

WinnerTokens == {"1", "2", "0", "3", "skip", "x"}

\* A mutant of IsIntToken: only "1" is read as a number
IsIntToken_OnlyOne(tok) == tok = "1"

\* int(winner_str) succeeds
IsIntToken(tok) == tok \in {"0", "1", "2", "3"}

\* int(winner_str)
IntOf(tok) == CASE tok = "0" -> 0 [] tok = "1" -> 1 [] tok = "2" -> 2 [] tok = "3" -> 3

\* _create_teams_from_opponents: four player lookups, then two team lookups.
\* Each lookup is handed the result of the one before it.
CreateTeamsFromOpponents(pcache, tcache, nid, opponents) ==
    LET Result(r4, t1, t2) ==
            [team1 |-> t1.team, team2 |-> t2.team, players_cache |-> r4.cache,
             teams_cache |-> t2.cache, nextId |-> t2.nextId]
        Team2(r3, r4, t1) ==
            Result(r4, t1,
                   GetOrCreateTeam(t1.cache, t1.nextId,
                                   DisplayName(r3.player, r4.player),
                                   r3.player, r4.player))
        Team1(r1, r2, r3, r4) ==
            Team2(r3, r4,
                  GetOrCreateTeam(tcache, r4.nextId,
                                  DisplayName(r1.player, r2.player),
                                  r1.player, r2.player))
        Player4(r1, r2, r3) ==
            Team1(r1, r2, r3,
                  GetOrCreatePlayer(r3.cache, r3.nextId, Strip(opponents[4])))
        Player3(r1, r2) ==
            Player4(r1, r2,
                    GetOrCreatePlayer(r2.cache, r2.nextId, Strip(opponents[3])))
        Player2(r1) ==
            Player3(r1, GetOrCreatePlayer(r1.cache, r1.nextId, Strip(opponents[2])))
    IN  Player2(GetOrCreatePlayer(pcache, nid, Strip(opponents[1])))

RECURSIVE DetailedGames(_, _, _)
\* _extract_games_from_content, the loop over map_matches: a Game for each
\* template whose winner is 1 or 2, nothing for skip, 0 and the rest
DetailedGames(maps, team1, team2) ==
    IF maps = <<>> THEN <<>>
    ELSE LET m == Head(maps)
             rest == DetailedGames(Tail(maps), team1, team2)
         IN  IF m.winner = "skip" THEN rest
             ELSE IF m.winner = "0" THEN rest
             ELSE IF ~ IsIntToken(m.winner) THEN rest
             ELSE IF IntOf(m.winner) = 1
                  THEN <<Game(m.index, MapName, Some(team1))>> \o rest
             ELSE IF IntOf(m.winner) = 2
                  THEN <<Game(m.index, MapName, Some(team2))>> \o rest
             ELSE rest

\* A mutant of SummaryGames: range(1, total_games) instead of total_games + 1
SummaryGames_OneShort(score1, score2) ==
    IF score1 # NoScore /\ score2 # NoScore
    THEN [k \in 1..(score1 + score2 - 1) |-> Game(k, UnknownMap, None)]
    ELSE <<>>

\* _extract_games_from_content, the fallback: score1 + score2 placeholder games
SummaryGames(score1, score2) ==
    IF score1 # NoScore /\ score2 # NoScore
    THEN [k \in 1..(score1 + score2) |-> Game(k, UnknownMap, None)]
    ELSE <<>>

\* DataParser._extract_games_from_content
ExtractGamesFromContent(block, team1, team2) ==
    IF block.maps # <<>>
    THEN DetailedGames(block.maps, team1, team2)
    ELSE SummaryGames(block.score1, block.score2)

\* A mutant of Wins: every game that has a winner counts for the team
Wins_AnyWinner(games, team) ==
    Cardinality({k \in 1..Len(games) : games[k].winner # None})

\* sum(1 for game in games if game.winner == team)
Wins(games, team) ==
    Cardinality({k \in 1..Len(games) : WinnerIs(games[k].winner, team)})

\* Match(match_id, team1, team2, ...) with the defaults of the dataclass
NewMatch(match_id, team1, team2) ==
    [match_id |-> match_id, team1 |-> team1, team2 |-> team2, winner |-> None,
     games |-> <<>>, team1_score |-> 0, team2_score |-> 0]

\* DataParser._create_match_from_wikitext, once _extract_best_of has returned
CreateMatchFromWikitext(match_id, team1, team2, block) ==
    LET Decide(m, team1_wins, team2_wins) ==
            IF m.games = <<>> THEN m
            ELSE IF team1_wins > team2_wins THEN [m EXCEPT !.winner = Some(team1)]
            ELSE IF team2_wins > team1_wins THEN [m EXCEPT !.winner = Some(team2)]
            ELSE IF team1_wins = 0 /\ team2_wins = 0
            THEN IF block.score1 # NoScore /\ block.score2 # NoScore
                 THEN [m EXCEPT !.team1_score = block.score1,
                                !.team2_score = block.score2,
                                !.winner = IF block.score1 > block.score2
                                           THEN Some(team1)
                                           ELSE IF block.score2 > block.score1
                                           THEN Some(team2)
                                           ELSE None]
                 ELSE m
            ELSE m
        WithGames(games) ==
            Decide([NewMatch(match_id, team1, team2) EXCEPT !.games = games],
                   Wins(games, team1), Wins(games, team2))
    IN  WithGames(ExtractGamesFromContent(block, team1, team2))

----------------------------------------------------------------------------
(* Olditeration DataParser.parse_matches_from_wikitext *)

Digits == {"0", "1", "2", "3", "4", "5", "6", "7", "8", "9"}

\* match_id.startswith('M') and match_id[1:].isdigit()
IsGroupMarker(match_id) ==
    /\ Len(match_id) >= 2
    /\ match_id[1] = "M"
    /\ \A k \in 2..Len(match_id) : match_id[k] \in Digits

\* tournament.liquipedia_slug.replace('/', '_')
BaseSlug(slug) == [k \in 1..Len(slug) |-> IF slug[k] = "/" THEN "_" ELSE slug[k]]

\* A mutant of GroupTag: the group is told by the position of the marker
GroupTag_ByPosition(match_id, existing, position) ==
    IF position >= 18 THEN <<"B">> ELSE <<"A">>

\* The group of a marker M<digits>: B when the marker was appended before
GroupTag(match_id, existing, position) ==
    IF match_id \in existing THEN <<"B">> ELSE <<"A">>

\* A mutant of GenerateFinalMatchId: group B starts at a fixed index of the
\* marker on the page
GenerateFinalMatchId_ByIndex(slug, match_id, existing, position) ==
    IF IsGroupMarker(match_id)
    THEN BaseSlug(slug) \o <<"_">> \o (IF position >= 1 THEN <<"B">> ELSE <<"A">>)
             \o <<"_">> \o match_id
    ELSE BaseSlug(slug) \o <<"_">> \o match_id

\* DataParser._generate_final_match_id
GenerateFinalMatchId(slug, match_id, existing, position) ==
    IF IsGroupMarker(match_id)
    THEN BaseSlug(slug) \o <<"_">> \o GroupTag(match_id, existing, position)
             \o <<"_">> \o match_id
    ELSE BaseSlug(slug) \o <<"_">> \o match_id

\* f"{team1.name}_vs_{team2.name}_{final_match_id}"
UniqueKey(team1, team2, final_match_id) ==
    team1.name \o <<"_", "v", "s", "_">> \o team2.name \o <<"_">> \o final_match_id

\* The caches, the matches list and the locals of the loop, as one record
LoopState(pcache, tcache, nid, matches, processed, existing) ==
    [players_cache |-> pcache, teams_cache |-> tcache, nextId |-> nid,
     matches |-> matches, processed_matches |-> processed,
     existing_match_ids |-> existing]

\* A mutant of LoopBody: the raw marker is recorded as seen as soon as the
\* block is read, not when its Match is appended
LoopBody_SeenFirst(st, slug, block, position) ==
    LET seen == [st EXCEPT !.existing_match_ids = @ \cup {block.marker}]
        Appended(withTeams, unique_key, m) ==
            [withTeams EXCEPT
                !.processed_matches = @ @@ (unique_key :> m.match_id),
                !.matches = Append(@, m)]
        Keyed(t, final_match_id, withTeams, unique_key) ==
            IF unique_key \in DOMAIN st.processed_matches THEN withTeams
            ELSE IF block.bestof = HugeDigits THEN withTeams
            ELSE Appended(withTeams, unique_key,
                          CreateMatchFromWikitext(final_match_id, t.team1, t.team2,
                                                  block))
        WithTeams(t, final_match_id) ==
            Keyed(t, final_match_id,
                  [seen EXCEPT !.players_cache = t.players_cache,
                               !.teams_cache = t.teams_cache,
                               !.nextId = t.nextId],
                  UniqueKey(t.team1, t.team2, final_match_id))
    IN  IF ~ block.balanced THEN seen
        ELSE IF block.opponents = None THEN seen
        ELSE WithTeams(CreateTeamsFromOpponents(st.players_cache, st.teams_cache,
                                                st.nextId, block.opponents),
                       GenerateFinalMatchId(slug, block.marker,
                                            st.existing_match_ids, position))

\* One iteration of the loop over match_positions (lines 81-115), for the
\* marker at index `position` (from 0) whose block is `block`
LoopBody(st, slug, block, position) ==
    LET \* lines 105-111: the Match is appended and its raw marker recorded
        Appended(withTeams, unique_key, m) ==
            [withTeams EXCEPT
                !.processed_matches = @ @@ (unique_key :> m.match_id),
                !.matches = Append(@, m),
                !.existing_match_ids = @ \cup {block.marker}]
        \* lines 99-105
        Keyed(t, final_match_id, withTeams, unique_key) ==
            IF unique_key \in DOMAIN st.processed_matches
            THEN withTeams                     \* true duplicate: continue
            ELSE IF block.bestof = HugeDigits
            THEN withTeams                     \* int() raises; except, line 114
            ELSE Appended(withTeams, unique_key,
                          CreateMatchFromWikitext(final_match_id, t.team1, t.team2,
                                                  block))
        \* lines 93-99: the caches now hold the teams and players of the block
        WithTeams(t, final_match_id) ==
            Keyed(t, final_match_id,
                  [st EXCEPT !.players_cache = t.players_cache,
                             !.teams_cache = t.teams_cache,
                             !.nextId = t.nextId],
                  UniqueKey(t.team1, t.team2, final_match_id))
    IN  IF ~ block.balanced THEN st            \* empty match_content: continue
        ELSE IF block.opponents = None THEN st \* no opponents: continue
        ELSE WithTeams(CreateTeamsFromOpponents(st.players_cache, st.teams_cache,
                                                st.nextId, block.opponents),
                       GenerateFinalMatchId(slug, block.marker,
                                            st.existing_match_ids, position))

\* A mutant of CachedTeams: the teams are left to Tournament.add_match, which
\* the parser never calls, and no cached team is copied
CachedTeams_NotCopied(tcache) == {}

\* self.teams_cache.values()
CachedTeams(tcache) == {tcache[k] : k \in DOMAIN tcache}

\* self.players_cache.values()
CachedPlayers(pcache) == {pcache[k] : k \in DOMAIN pcache}

\* A mutant of NewProcessed: the dict of processed matches outlives the call
NewProcessed_Kept == processed_matches

\* processed_matches = {}
NewProcessed == EmptyDict

----------------------------------------------------------------------------
(* The pages *)

MaxBlocks == 3       \* match blocks on a page

NameA == <<"a">>
NameB == <<"b">>
NameC == <<"c">>
NameD == <<"d">>

OpponentChoices ==
    {<<NameA, NameB, NameC, NameD>>,
     <<NameB, NameA, NameC, NameD>>,
     <<NameA, NameC, NameB, NameD>>}

Block(marker, balanced, opponents, bestof, maps, score1, score2) ==
    [marker |-> marker, balanced |-> balanced, opponents |-> opponents,
     bestof |-> bestof, maps |-> maps, score1 |-> score1, score2 |-> score2]

\* Well-formed blocks: a group block M1 carries the aggregate scores 2 and 1,
\* a bracket block R1 carries one map, won by team 2
GoodBlocks ==
    {Block(<<"M", "1">>, TRUE, opp, "3", <<>>, 2, 1) : opp \in OpponentChoices}
    \cup
    {Block(<<"R", "1">>, TRUE, opp, "3", <<[index |-> 1, winner |-> "2"]>>,
           NoScore, NoScore) : opp \in OpponentChoices}

\* Blocks whose processing fails: braces that never balance, an opponent
\* template without its players, a bestof that int() rejects
BadBlocks ==
    {Block(<<"M", "1">>, FALSE, None, "3", <<>>, NoScore, NoScore),
     Block(<<"M", "1">>, TRUE, None, "3", <<>>, NoScore, NoScore),
     Block(<<"M", "1">>, TRUE, <<NameB, NameA, NameC, NameD>>, HugeDigits, <<>>, 2, 1)}

Blocks == GoodBlocks \cup BadBlocks

Pages == UNION {[1..n -> Blocks] : n \in 0..MaxBlocks}

Fails(block) ==
    ~ block.balanced \/ block.opponents = None \/ block.bestof = HugeDigits

----------------------------------------------------------------------------
(* Values of the variables a specification does not use *)

NoRet == [name |-> <<>>, id |-> -1]

DriverIdle ==
    /\ phase = "idle"
    /\ calls = 0
    /\ ret = NoRet
    /\ plog = {}
    /\ tlog = {}

PageIdle ==
    /\ wikitext = <<>>
    /\ tournament = NewTournament
    /\ pc = "idle"
    /\ i = 0
    /\ processed_matches = EmptyDict
    /\ existing_match_ids = {}
    /\ run = <<>>
    /\ clean = <<>>

MatchIdle ==
    /\ content = <<>>
    /\ match = <<>>

ExtractIdle ==
    /\ page_text = <<>>
    /\ marker_pos = 0
    /\ match_content = <<>>

ScoreIdle == score_read = <<>>

BatchIdle ==
    /\ fetch_plan = <<>>
    /\ batch_pc = "idle"
    /\ slug_index = 0
    /\ players_cache_by_name = EmptyDict
    /\ teams_cache_by_key = EmptyDict
    /\ page_content = <<>>
    /\ tournament_data = <<>>
    /\ all_tournaments = <<>>
    /\ all_players = EmptyDict
    /\ all_teams = EmptyDict
    /\ all_matches = <<>>
    /\ result = <<>>

QueueIdle ==
    /\ max_retries = 0
    /\ tasks = <<>>
    /\ task_index = 0
    /\ scrape_pc = "idle"
    /\ results = <<>>
    /\ session_results = <<>>
    /\ scrape_ret = <<>>
    /\ attempts = <<>>
    /\ next_origin = 1

EnhIdle ==
    /\ enh_tasks = <<>>
    /\ enh_index = 0
    /\ enh_pc = "idle"
    /\ enh_results = <<>>
    /\ enh_session_results = <<>>
    /\ processed_slugs = {}
    /\ enh_ret = <<>>
    /\ enh_added = 0

DbIdle ==
    /\ player_id_map = EmptyDict
    /\ team_id_map = EmptyDict
    /\ db_players = EmptyDict
    /\ db_teams = EmptyDict
    /\ db_next_id = 1
    /\ insert_player_log = <<>>
    /\ insert_team_log = <<>>
    /\ team_id_log = <<>>

ToolIdle ==
    /\ QueueIdle
    /\ EnhIdle
    /\ DbIdle

----------------------------------------------------------------------------
(* Parsing a page, and parsing it again *)

Counts(t) ==
    [matches |-> Len(t.matches), players |-> Cardinality(t.players),
     teams |-> Cardinality(t.teams)]

Init ==
    /\ NewParser
    /\ wikitext \in Pages
    /\ tournament = NewTournament
    /\ pc = "loop"
    /\ i = 1
    /\ processed_matches = EmptyDict
    /\ existing_match_ids = {}
    /\ run = [mode |-> "first", before |-> 0, first |-> None]
    /\ clean = [st |-> LoopState(EmptyDict, EmptyDict, 0, <<>>, EmptyDict, {}),
                position |-> 0]
    /\ DriverIdle
    /\ MatchIdle
    /\ ExtractIdle
    /\ ScoreIdle
    /\ BatchIdle
    /\ ToolIdle

\* One marker of match_positions: the loop body, and the same on the page
\* without the failing blocks
ProcessMarker ==
    /\ pc = "loop"
    /\ i <= Len(wikitext)
    /\ \E st \in {LoopBody(LoopState(players_cache, teams_cache, nextId,
                                     tournament.matches, processed_matches,
                                     existing_match_ids),
                           tournament.liquipedia_slug, wikitext[i], i - 1)} :
           /\ players_cache' = st.players_cache
           /\ teams_cache' = st.teams_cache
           /\ nextId' = st.nextId
           /\ tournament' = [tournament EXCEPT !.matches = st.matches]
           /\ processed_matches' = st.processed_matches
           /\ existing_match_ids' = st.existing_match_ids
    /\ clean' = IF Fails(wikitext[i]) THEN clean
                ELSE [st |-> LoopBody(clean.st, tournament.liquipedia_slug,
                                      wikitext[i], clean.position),
                      position |-> clean.position + 1]
    /\ i' = i + 1
    /\ UNCHANGED <<wikitext, pc, run>>
    /\ UNCHANGED driverVars
    /\ UNCHANGED matchVars
    /\ UNCHANGED extractVars
    /\ UNCHANGED scoreVars
    /\ UNCHANGED batchVars
    /\ UNCHANGED toolVars

\* Lines 117-121: the caches are copied into the tournament; the call returns
Finish ==
    /\ pc = "loop"
    /\ i > Len(wikitext)
    /\ tournament' =
         [tournament EXCEPT
            !.players = PlayersUpdate(@, CachedPlayers(players_cache)),
            !.teams = TeamsUpdate(@, CachedTeams(teams_cache))]
    /\ pc' = "returned"
    /\ run' = [run EXCEPT !.first = IF @ = None THEN Some(Counts(tournament')) ELSE @]
    /\ UNCHANGED <<wikitext, i, processed_matches, existing_match_ids, clean>>
    /\ UNCHANGED cacheVars
    /\ UNCHANGED driverVars
    /\ UNCHANGED matchVars
    /\ UNCHANGED extractVars
    /\ UNCHANGED scoreVars
    /\ UNCHANGED batchVars
    /\ UNCHANGED toolVars

\* After the first call: parse_matches_from_wikitext(tournament, wikitext) once
\* more, with the same parser and the same Tournament
ParseAgain ==
    /\ pc = "returned"
    /\ run.mode = "first"
    /\ pc' = "loop"
    /\ i' = 1
    /\ processed_matches' = NewProcessed
    /\ existing_match_ids' = {}
    /\ run' = [run EXCEPT !.mode = "again", !.before = Len(tournament.matches)]
    /\ clean' = [st |-> LoopState(players_cache, teams_cache, nextId,
                                  tournament.matches, EmptyDict, {}),
                 position |-> 0]
    /\ UNCHANGED <<wikitext, tournament>>
    /\ UNCHANGED cacheVars
    /\ UNCHANGED driverVars
    /\ UNCHANGED matchVars
    /\ UNCHANGED extractVars
    /\ UNCHANGED scoreVars
    /\ UNCHANGED batchVars
    /\ UNCHANGED toolVars

\* After the first call: the same page parsed by a new DataParser into a new
\* Tournament
ParseFresh ==
    /\ pc = "returned"
    /\ run.mode = "first"
    /\ players_cache' = EmptyDict
    /\ teams_cache' = EmptyDict
    /\ nextId' = 0
    /\ tournament' = NewTournament
    /\ pc' = "loop"
    /\ i' = 1
    /\ processed_matches' = NewProcessed
    /\ existing_match_ids' = {}
    /\ run' = [run EXCEPT !.mode = "fresh", !.before = 0]
    /\ clean' = [st |-> LoopState(EmptyDict, EmptyDict, 0, <<>>, EmptyDict, {}),
                 position |-> 0]
    /\ UNCHANGED wikitext
    /\ UNCHANGED driverVars
    /\ UNCHANGED matchVars
    /\ UNCHANGED extractVars
    /\ UNCHANGED scoreVars
    /\ UNCHANGED batchVars
    /\ UNCHANGED toolVars

Next == ProcessMarker \/ Finish \/ ParseAgain \/ ParseFresh

Spec == Init /\ [][Next]_vars

----------------------------------------------------------------------------
(* Claims about parse_matches_from_wikitext *)

\* The slug of the player a raw opponent name resolves to
OpponentSlug(raw) == SlugOf(CleanName(Strip(raw)))

\* The identity of a Team under Team.__eq__: its set of player slugs
TeamId(team) == {team.player1.liquipedia_slug, team.player2.liquipedia_slug}

\* A Match as Match.__eq__ compares it: Teams count by their players
GameView(g) ==
    [game_number |-> g.game_number, map_name |-> g.map_name,
     winner |-> IF g.winner = None THEN {} ELSE TeamId(g.winner[1])]

MatchView(m) ==
    [match_id |-> m.match_id, team1 |-> TeamId(m.team1), team2 |-> TeamId(m.team2),
     winner |-> IF m.winner = None THEN {} ELSE TeamId(m.winner[1]),
     team1_score |-> m.team1_score, team2_score |-> m.team2_score,
     games |-> [k \in 1..Len(m.games) |-> GameView(m.games[k])]]

MatchViews(matches) == [k \in 1..Len(matches) |-> MatchView(matches[k])]

MarkerM1 == <<"M", "1">>
IdOfGroupA == <<"e", "_", "1", "_", "A", "_", "M", "1">>
IdOfGroupB == <<"e", "_", "1", "_", "B", "_", "M", "1">>

\* The page has exactly two well-formed blocks with the marker M1, at j and at
\* k, and their opponents differ
TwoM1Blocks(j, k) ==
    /\ j < k
    /\ \A n \in 1..Len(wikitext) :
          (wikitext[n].marker = MarkerM1 /\ ~ Fails(wikitext[n])) <=> n \in {j, k}
    /\ wikitext[j].opponents # wikitext[k].opponents

\* The Match m was built from the opponents of the block b
BuiltFrom(m, b) ==
    /\ TeamId(m.team1) = {OpponentSlug(b.opponents[1]), OpponentSlug(b.opponents[2])}
    /\ TeamId(m.team2) = {OpponentSlug(b.opponents[3]), OpponentSlug(b.opponents[4])}

M1Matches ==
    SelectSeq(tournament.matches, LAMBDA m : m.match_id \in {IdOfGroupA, IdOfGroupB})

\* C3: a page with two M1 blocks that have different opponents, parsed into a
\* fresh Tournament, yields two matches for them: the first block as group A,
\* the second as group B, with distinct ids, none dropped.
C3_TwoM1BlocksGiveGroupAAndB ==
    (pc = "returned" /\ run.mode \in {"first", "fresh"}) =>
        \A j, k \in 1..Len(wikitext) :
            TwoM1Blocks(j, k) =>
                /\ Len(M1Matches) = 2
                /\ M1Matches[1].match_id = IdOfGroupA
                /\ M1Matches[2].match_id = IdOfGroupB
                /\ BuiltFrom(M1Matches[1], wikitext[j])
                /\ BuiltFrom(M1Matches[2], wikitext[k])

C3_Witness ==
    /\ pc = "returned"
    /\ run.mode = "first"
    /\ \E j, k \in 1..Len(wikitext) : TwoM1Blocks(j, k)
    /\ Len(M1Matches) = 2

\* C4 (as claimed): a page of two byte-identical well-formed blocks, with any
\* marker, parsed into a fresh Tournament, leaves exactly one Match.
C4_IdenticalBlocksGiveOneMatch ==
    (/\ pc = "returned"
     /\ run.mode = "first"
     /\ Len(wikitext) = 2
     /\ wikitext[1] = wikitext[2]
     /\ ~ Fails(wikitext[1])) => Len(tournament.matches) = 1

\* C5 (as claimed): after a parse into a fresh Tournament the match ids of
\* tournament.matches are pairwise distinct.
C5_MatchIdsDistinct ==
    (pc = "returned" /\ run.mode \in {"first", "fresh"}) =>
        \A a, b \in 1..Len(tournament.matches) :
            a # b => tournament.matches[a].match_id # tournament.matches[b].match_id

C8_ReparseDoesNotGrow ==
    (pc = "returned" /\ run.mode = "again") =>
        Len(tournament.matches) = run.before

\* x in tournament.teams / tournament.players (hash and __eq__ of the element)
InTeams(team) == \E u \in tournament.teams : TeamEq(u, team)
InPlayers(player) == \E q \in tournament.players : PlayerEq(q, player)
Listed(team) ==
    InTeams(team) /\ InPlayers(team.player1) /\ InPlayers(team.player2)

\* C9: when the call has returned, the teams and the winner of every Match are
\* in tournament.teams and their players are in tournament.players.
C9_MatchEntitiesListed ==
    pc = "returned" =>
        \A n \in 1..Len(tournament.matches) :
            LET m == tournament.matches[n]
            IN  /\ Listed(m.team1)
                /\ Listed(m.team2)
                /\ m.winner # None => Listed(m.winner[1])

C9_Witness ==
    /\ pc = "returned"
    /\ \E n \in 1..Len(tournament.matches) : tournament.matches[n].winner # None
    /\ Cardinality(tournament.teams) >= 3

AppendedNow ==
    SubSeq(tournament.matches, run.before + 1, Len(tournament.matches))

\* The raw marker a final match id ends with (markers have two characters)
RawMarker(final_match_id) ==
    SubSeq(final_match_id, Len(final_match_id) - 1, Len(final_match_id))

\* The group tag of a final match id <slug>_<tag>_<marker>
TagOf(final_match_id) == <<final_match_id[Len(final_match_id) - 3]>>

\* C12: the raw markers recorded as seen are those of the matches the call has
\* appended, and an appended match with a marker M<digits> carries the tag A
\* when no match appended before it has that marker and B when one has,
\* wherever its block stands on the page.
C12_GroupTagBySeenSet ==
    pc \in {"loop", "returned"} =>
        /\ existing_match_ids =
              {RawMarker(AppendedNow[n].match_id) : n \in 1..Len(AppendedNow)}
        /\ \A n \in 1..Len(AppendedNow) :
              IsGroupMarker(RawMarker(AppendedNow[n].match_id)) =>
                  TagOf(AppendedNow[n].match_id) =
                      IF \E k \in 1..(n - 1) :
                            RawMarker(AppendedNow[k].match_id)
                                = RawMarker(AppendedNow[n].match_id)
                      THEN <<"B">> ELSE <<"A">>

\* The first M1 block failed and left no mark: the M1 blocks after it were
\* assembled as group A and group B
C12_Witness ==
    /\ pc = "returned"
    /\ run.mode = "first"
    /\ Len(wikitext) = 3
    /\ wikitext[1].marker = MarkerM1 /\ Fails(wikitext[1])
    /\ wikitext[2].marker = MarkerM1 /\ ~ Fails(wikitext[2])
    /\ wikitext[3].marker = MarkerM1 /\ ~ Fails(wikitext[3])
    /\ Len(tournament.matches) = 2
    /\ tournament.matches[1].match_id = IdOfGroupA
    /\ tournament.matches[2].match_id = IdOfGroupB

\* The display name with the two player names in sorted order
SortedDisplayName(team) ==
    Sorted2(team.player1.name, team.player2.name)[1] \o <<" ", "+", " ">>
        \o Sorted2(team.player1.name, team.player2.name)[2]

\* C13 (as claimed): the display name of every Team the parser created lists
\* its two players in sorted order.
C13_TeamNamesSorted ==
    \A k \in DOMAIN teams_cache : teams_cache[k].name = SortedDisplayName(teams_cache[k])

----------------------------------------------------------------------------
(* A session that asks the player cache for two names, with other calls in *)
(* between                                                                 *)

InitPlayers ==
    /\ NewParser
    /\ phase = "first"
    /\ calls = 0
    /\ ret = NoRet
    /\ plog = {}
    /\ tlog = {}
    /\ PageIdle
    /\ MatchIdle
    /\ ExtractIdle
    /\ ScoreIdle
    /\ BatchIdle
    /\ ToolIdle

\* The canonical slug as the specification of the cache states it
CanonicalSlug(name) == ReplaceSpaces(Lower(Strip(SubBraces(name))))

\* One call self._get_or_create_player(name), recorded in the history
CallPlayer(name) ==
    LET r == GetOrCreatePlayer(players_cache, nextId, name)
    IN  /\ players_cache' = r.cache
        /\ nextId' = r.nextId
        /\ calls' = calls + 1
        /\ ret' = [name |-> name, id |-> r.player.id]
        /\ plog' = plog \cup {<<CanonicalSlug(name), r.player.id>>}
        /\ UNCHANGED <<teams_cache, tlog>>
        /\ UNCHANGED pageVars
        /\ UNCHANGED matchVars
        /\ UNCHANGED extractVars
        /\ UNCHANGED scoreVars
        /\ UNCHANGED batchVars
        /\ UNCHANGED toolVars

FirstCall ==
    /\ phase = "first"
    /\ \E name \in Names : CallPlayer(name)
    /\ phase' = "between"

OtherCall ==
    /\ phase = "between"
    /\ calls < 1 + MaxOtherCalls
    /\ \E name \in PoolNames : CallPlayer(name)
    /\ phase' = "between"

SecondCall ==
    /\ phase = "between"
    /\ \E name \in Names : CallPlayer(name)
    /\ phase' = "done"

NextPlayers == FirstCall \/ OtherCall \/ SecondCall

SpecPlayers == InitPlayers /\ [][NextPlayers]_vars

\* C2: two calls whose names have the same canonical slug return the same
\* Player instance, and no two entries of the cache hold the same slug.
C2_PlayerInterning ==
    /\ \A e1, e2 \in plog : e1[1] = e2[1] => e1[2] = e2[2]
    /\ \A k1, k2 \in DOMAIN players_cache :
          players_cache[k1].liquipedia_slug = players_cache[k2].liquipedia_slug
              => k1 = k2

\* The last call was answered from the cache, with a Player that was created
\* for a differently written name
C2_Witness ==
    /\ phase = "done"
    /\ calls = 2 + MaxOtherCalls
    /\ \E k \in DOMAIN players_cache :
          /\ players_cache[k].id = ret.id
          /\ players_cache[k].name # Strip(SubBraces(ret.name))

----------------------------------------------------------------------------
(* A session that asks the caches for players and for teams, in any order *)

InitTeams ==
    /\ NewParser
    /\ phase = "session"
    /\ calls = 0
    /\ ret = NoRet
    /\ plog = {}
    /\ tlog = {}
    /\ PageIdle
    /\ MatchIdle
    /\ ExtractIdle
    /\ ScoreIdle
    /\ BatchIdle
    /\ ToolIdle

SessionPlayerCall ==
    /\ phase = "session"
    /\ calls < MaxCalls
    /\ \E name \in PoolNames : CallPlayer(name)
    /\ UNCHANGED phase

\* One call self._get_or_create_team(f"{A.name} + {B.name}", A, B) for two
\* players of the cache, recorded in the history
SessionTeamCall ==
    /\ phase = "session"
    /\ calls < MaxCalls
    /\ \E A, B \in CachedPlayers(players_cache) :
         \E r \in {GetOrCreateTeam(teams_cache, nextId, DisplayName(A, B), A, B)} :
            /\ teams_cache' = r.cache
            /\ nextId' = r.nextId
            /\ ret' = [name |-> DisplayName(A, B), id |-> r.team.id]
            /\ tlog' = tlog \cup {<<A.liquipedia_slug, B.liquipedia_slug, r.team.id>>}
    /\ calls' = calls + 1
    /\ UNCHANGED <<players_cache, phase, plog>>
    /\ UNCHANGED pageVars
    /\ UNCHANGED matchVars
    /\ UNCHANGED extractVars
    /\ UNCHANGED scoreVars
    /\ UNCHANGED batchVars
    /\ UNCHANGED toolVars

NextTeams == SessionPlayerCall \/ SessionTeamCall

SpecTeams == InitTeams /\ [][NextTeams]_vars

\* C1: calls for the same unordered pair of players, in either order and with
\* any calls in between, return the same Team instance, and the cache holds
\* one entry per unordered pair of slugs.
C1_TeamSymmetry ==
    /\ \A e1, e2 \in tlog :
          {e1[1], e1[2]} = {e2[1], e2[2]} => e1[3] = e2[3]
    /\ \A k1, k2 \in DOMAIN teams_cache :
          {k1[1], k1[2]} = {k2[1], k2[2]} => k1 = k2

\* The cache was asked for (A, B) and for (B, A), A and B different players
C1_Witness ==
    \E e1, e2 \in tlog :
        /\ e1[1] = e2[2]
        /\ e1[2] = e2[1]
        /\ e1[1] # e1[2]
        /\ e1[3] = e2[3]

----------------------------------------------------------------------------
(* One match block handed to _create_match_from_wikitext *)

MapIndexes == {1, 2}

MapTemplates == [index : MapIndexes, winner : WinnerTokens]

MapLists == UNION {[1..n -> MapTemplates] : n \in 0..MaxMaps}

Scores == {NoScore} \cup 0..MaxScore

\* Blocks with any maps and any scores; the two sides are two pairs of
\* players or one pair named twice
MatchBlocks ==
    {Block(MarkerM1, TRUE, opp, "3", maps, s1, s2) :
        opp \in {<<NameA, NameB, NameC, NameD>>, <<NameA, NameB, NameB, NameA>>},
        maps \in MapLists, s1 \in Scores, s2 \in Scores}

InitMatch ==
    /\ NewParser
    /\ content \in MatchBlocks
    /\ match = None
    /\ DriverIdle
    /\ PageIdle
    /\ ExtractIdle
    /\ ScoreIdle
    /\ BatchIdle
    /\ ToolIdle

\* Lines 93-105 for one block: the teams are resolved and the Match is built
BuildMatch ==
    /\ match = None
    /\ \E t \in {CreateTeamsFromOpponents(players_cache, teams_cache, nextId,
                                           content.opponents)} :
          /\ players_cache' = t.players_cache
          /\ teams_cache' = t.teams_cache
          /\ nextId' = t.nextId
          /\ match' = Some(CreateMatchFromWikitext(
                              GenerateFinalMatchId(tournament.liquipedia_slug,
                                                   content.marker, {}, 0),
                              t.team1, t.team2, content))
    /\ UNCHANGED content
    /\ UNCHANGED driverVars
    /\ UNCHANGED pageVars
    /\ UNCHANGED extractVars
    /\ UNCHANGED scoreVars
    /\ UNCHANGED batchVars
    /\ UNCHANGED toolVars

NextMatch == BuildMatch

SpecMatch == InitMatch /\ [][NextMatch]_vars

\* C6: for a block without map templates whose two aggregate scores are
\* integers s1 and s2, the Match has team1_score = s1, team2_score = s2, the
\* games 1..s1+s2 on the unknown map, and the side with the higher score as
\* winner (no winner on a tie).
C6_ScoreFallback ==
    (/\ match # None
     /\ content.maps = <<>>
     /\ content.score1 # NoScore
     /\ content.score2 # NoScore) =>
        LET m == match[1]
            s1 == content.score1
            s2 == content.score2
        IN  /\ m.team1_score = s1
            /\ m.team2_score = s2
            /\ Len(m.games) = s1 + s2
            /\ \A k \in 1..Len(m.games) :
                  /\ m.games[k].game_number = k
                  /\ m.games[k].map_name = UnknownMap
            /\ s1 > s2 => m.winner = Some(m.team1)
            /\ s2 > s1 => m.winner = Some(m.team2)
            /\ s1 = s2 => m.winner = None

C6_Witness ==
    /\ match # None
    /\ content.maps = <<>>
    /\ content.score1 = 2
    /\ content.score2 = 1
    /\ Len(match[1].games) = 3
    /\ match[1].winner = Some(match[1].team1)
    /\ match[1].team1 # match[1].team2

\* C14 (as claimed): the game numbers of the games of a Match are pairwise
\* distinct, also for a block with two map templates of one index.
C14_GameNumbersDistinct ==
    match # None =>
        \A a, b \in 1..Len(match[1].games) :
            a # b => match[1].games[a].game_number # match[1].games[b].game_number

\* The games of m whose winner is the team, counted as Team.__eq__ compares
GamesWonBy(m, team) ==
    Cardinality({k \in 1..Len(m.games) :
        /\ m.games[k].winner # None
        /\ TeamId(m.games[k].winner[1]) = TeamId(team)})

\* The winner the two numbers a (of team1) and b (of team2) call for
SideAhead(m, a, b) ==
    IF a > b THEN Some(m.team1) ELSE IF b > a THEN Some(m.team2) ELSE None

\* C15: the winner of a built Match is null or one of its two teams; it is the
\* side with the higher score field when the score fields are set, else the
\* side with more game wins, and null on a tie.
C15_WinnerAgreesWithScores ==
    match # None =>
        LET m == match[1]
        IN  /\ m.winner \in {None, Some(m.team1), Some(m.team2)}
            /\ m.winner =
                  IF m.team1_score > 0 \/ m.team2_score > 0
                  THEN SideAhead(m, m.team1_score, m.team2_score)
                  ELSE SideAhead(m, GamesWonBy(m, m.team1), GamesWonBy(m, m.team2))

\* Two map templates, the second won by team 2, the first not counted: the
\* winner is team 2 by game wins although the block carries the scores 2 and 1
C15_Witness ==
    /\ match # None
    /\ Len(content.maps) = 2
    /\ content.score1 = 2
    /\ content.score2 = 1
    /\ match[1].team1 # match[1].team2
    /\ match[1].team1_score = 0
    /\ Len(match[1].games) = 1
    /\ match[1].winner = Some(match[1].team2)

\* The templates of a block that carry the indicator "1" or "2"
Decided(maps) == SelectSeq(maps, LAMBDA t : t.winner \in {"1", "2"})

C17_FallbackWhenNoGameResolved ==
    (/\ match # None
     /\ Decided(content.maps) = <<>>
     /\ content.score1 # NoScore
     /\ content.score2 # NoScore) =>
        /\ match[1].team1_score = content.score1
        /\ match[1].team2_score = content.score2
        /\ match[1].winner = SideAhead(match[1], content.score1, content.score2)

----------------------------------------------------------------------------
(* Olditeration DataParser._extract_match_content_at_position *)

MaxBody == 5         \* characters of the page after "{{Match"
MaxPos == 2          \* largest position handed to the extraction

\* The least element of a non-empty set of integers
Least(S) == CHOOSE k \in S : \A j \in S : k <= j

\* str.find(sub, start): the lowest index (from 0) at or after start where
\* sub occurs, -1 when there is none
Find(s, sub, start) ==
    LET hits == {k \in start..(Len(s) - Len(sub)) :
                    SubSeq(s, k + 1, k + Len(sub)) = sub}
    IN  IF hits = {} THEN -1 ELSE Least(hits)

\* s[a:b] for 0 <= a <= b <= len(s)
Slice(s, a, b) == SubSeq(s, a + 1, b)

\* f"{match_id}={{{{Match"
StartMarker(match_id) == match_id \o <<"=", "{", "{", "M", "a", "t", "c", "h">>

\* f"|{match_id}={{{{Match"
PipeMarker(match_id) == <<"|">> \o StartMarker(match_id)

RECURSIVE ScanBraces(_, _, _)
\* The loop over enumerate(wikitext[start_pos:], start_pos), from index k with
\* the counter at brace_count: i + 1 for the first '}' that brings the counter
\* to zero, -1 when the loop ends without a break
ScanBraces(s, k, brace_count) ==
    IF k >= Len(s) THEN -1
    ELSE IF s[k + 1] = "{" THEN ScanBraces(s, k + 1, brace_count + 1)
    ELSE IF s[k + 1] = "}"
         THEN IF brace_count - 1 = 0 THEN k + 1
              ELSE ScanBraces(s, k + 1, brace_count - 1)
    ELSE ScanBraces(s, k + 1, brace_count)

\* wikitext.find(start_marker, position), then the same with the pipe prefix
StartPos(s, match_id, pos) ==
    IF Find(s, StartMarker(match_id), pos) # -1
    THEN Find(s, StartMarker(match_id), pos)
    ELSE Find(s, PipeMarker(match_id), pos)

\* A mutant of ExtractMatchContentAtPosition: a block that never closes is
\* returned up to the end of the page
ExtractMatchContentAtPosition_ToEnd(s, match_id, pos) ==
    LET Cut(start_pos, end_pos) ==
            IF start_pos = -1 THEN None
            ELSE IF end_pos = -1 THEN Some(Slice(s, start_pos, Len(s)))
            ELSE Some(Slice(s, start_pos, end_pos))
        From(start_pos) ==
            Cut(start_pos, IF start_pos = -1 THEN -1 ELSE ScanBraces(s, start_pos, 0))
    IN  From(StartPos(s, match_id, pos))

\* DataParser._extract_match_content_at_position: None when the marker is not
\* found, else wikitext[start_pos:end_pos], where end_pos stays at start_pos
\* unless the loop breaks
ExtractMatchContentAtPosition(s, match_id, pos) ==
    LET Cut(start_pos, end_pos) ==
            IF start_pos = -1 THEN None
            ELSE IF end_pos = -1 THEN Some(Slice(s, start_pos, start_pos))
            ELSE Some(Slice(s, start_pos, end_pos))
        From(start_pos) ==
            Cut(start_pos, IF start_pos = -1 THEN -1 ELSE ScanBraces(s, start_pos, 0))
    IN  From(StartPos(s, match_id, pos))

\* Pages: at most one character, then the marker of M1 or nothing, then at
\* most MaxBody characters
Prefixes == {<<>>, <<"x">>, <<"|">>, <<"}">>}
Bodies == UNION {[1..n -> {"{", "}", "x"}] : n \in 0..MaxBody}
PageTexts ==
    {pre \o mid \o body :
        pre \in Prefixes, mid \in {<<>>, StartMarker(MarkerM1)}, body \in Bodies}

\* Not yet returned: neither None nor a string
Pending == <<<<>>, <<>>>>

InitExtract ==
    /\ NewParser
    /\ page_text \in PageTexts
    /\ marker_pos \in 0..MaxPos
    /\ match_content = Pending
    /\ DriverIdle
    /\ PageIdle
    /\ MatchIdle
    /\ ScoreIdle
    /\ BatchIdle
    /\ ToolIdle

\* Line 83: match_content = self._extract_match_content_at_position(...)
ExtractContent ==
    /\ match_content = Pending
    /\ match_content' = ExtractMatchContentAtPosition(page_text, MarkerM1, marker_pos)
    /\ UNCHANGED <<page_text, marker_pos>>
    /\ UNCHANGED cacheVars
    /\ UNCHANGED driverVars
    /\ UNCHANGED pageVars
    /\ UNCHANGED matchVars
    /\ UNCHANGED scoreVars
    /\ UNCHANGED batchVars
    /\ UNCHANGED toolVars

NextExtract == ExtractContent

SpecExtract == InitExtract /\ [][NextExtract]_vars

\* Opening and closing braces of a string
Opens(s) == Cardinality({k \in 1..Len(s) : s[k] = "{"})
Closes(s) == Cardinality({k \in 1..Len(s) : s[k] = "}"})

\* The positions at or after pos where the marker of M1 starts
MarkerStarts ==
    {a \in marker_pos..Len(page_text) :
        /\ a + Len(StartMarker(MarkerM1)) <= Len(page_text)
        /\ Slice(page_text, a, a + Len(StartMarker(MarkerM1))) = StartMarker(MarkerM1)}

\* The ends e of the slices page_text[a:e] that are balanced and not empty of
\* braces
BalancedEnds(a) ==
    {e \in (a + 1)..Len(page_text) :
        /\ Opens(Slice(page_text, a, e)) > 0
        /\ Opens(Slice(page_text, a, e)) = Closes(Slice(page_text, a, e))}

\* C11: for a marker whose braces balance the extraction returns the slice from
\* the marker to the first position where the nesting is back at zero, which
\* holds as many closing as opening braces; for an absent marker or braces that
\* never balance it returns None or the empty string, never a partial slice.
C11_BalancedSliceOrNothing ==
    match_content # Pending =>
        IF MarkerStarts # {} /\ BalancedEnds(Least(MarkerStarts)) # {}
        THEN /\ match_content =
                  Some(Slice(page_text, Least(MarkerStarts),
                             Least(BalancedEnds(Least(MarkerStarts)))))
             /\ Opens(match_content[1]) = Closes(match_content[1])
        ELSE match_content \in {None, Some(<<>>)}

\* A nested block was cut out of a page that goes on after it
C11_Witness ==
    /\ match_content \notin {Pending, None}
    /\ Opens(match_content[1]) >= 3
    /\ Len(match_content[1]) < Len(page_text) - 1

----------------------------------------------------------------------------
(* Olditeration Match: add_game and the score property *)

MaxGames == 3        \* games added to one Match

DigitOf(d) ==
    CASE d = 0 -> "0" [] d = 1 -> "1" [] d = 2 -> "2" [] d = 3 -> "3" [] d = 4 -> "4"
      [] d = 5 -> "5" [] d = 6 -> "6" [] d = 7 -> "7" [] d = 8 -> "8" [] d = 9 -> "9"

RECURSIVE Str(_)
\* str(n) for an int n >= 0: its decimal digits
Str(n) == IF n < 10 THEN <<DigitOf(n)>> ELSE Str(n \div 10) \o <<DigitOf(n % 10)>>

\* f"{a}-{b}"
ScoreString(a, b) == Str(a) \o <<"-">> \o Str(b)

\* Match.add_game
AddGameTo(m, game) == [m EXCEPT !.games = Append(@, game)]

\* The Match.score property: the string returned and the Match after the read
MatchScore(m) ==
    IF m.team1_score > 0 \/ m.team2_score > 0
    THEN [score |-> ScoreString(m.team1_score, m.team2_score), match |-> m]
    ELSE IF m.games = <<>>
    THEN [score |-> <<"0", "-", "0">>, match |-> m]
    ELSE [score |-> ScoreString(Wins(m.games, m.team1), Wins(m.games, m.team2)),
          match |-> [m EXCEPT !.team1_score = Wins(m.games, m.team1),
                              !.team2_score = Wins(m.games, m.team2)]]

\* The two teams of the Match: a and b against c and d
ScoreTeams ==
    CreateTeamsFromOpponents(EmptyDict, EmptyDict, 0, <<NameA, NameB, NameC, NameD>>)

\* A Match as the dataclass builds it: no games, no winner, both score fields 0
InitScore ==
    /\ players_cache = ScoreTeams.players_cache
    /\ teams_cache = ScoreTeams.teams_cache
    /\ nextId = ScoreTeams.nextId
    /\ match = Some(NewMatch(IdOfGroupA, ScoreTeams.team1, ScoreTeams.team2))
    /\ content = <<>>
    /\ score_read = None
    /\ DriverIdle
    /\ PageIdle
    /\ ExtractIdle
    /\ BatchIdle
    /\ ToolIdle

\* match.add_game(Game(n, map, winner)) for a winner that is null or one of the
\* two teams
AddGame ==
    /\ Len(match[1].games) < MaxGames
    /\ \E winner \in {None, Some(match[1].team1), Some(match[1].team2)} :
          match' = Some(AddGameTo(match[1],
                                  Game(Len(match[1].games) + 1, MapName, winner)))
    /\ score_read' = None
    /\ UNCHANGED content
    /\ UNCHANGED cacheVars
    /\ UNCHANGED driverVars
    /\ UNCHANGED pageVars
    /\ UNCHANGED extractVars
    /\ UNCHANGED batchVars
    /\ UNCHANGED toolVars

\* A read of match.score
ReadScore ==
    /\ score_read = None
    /\ \E r \in {MatchScore(match[1])} :
          /\ score_read' = Some(r.score)
          /\ match' = Some(r.match)
    /\ UNCHANGED content
    /\ UNCHANGED cacheVars
    /\ UNCHANGED driverVars
    /\ UNCHANGED pageVars
    /\ UNCHANGED extractVars
    /\ UNCHANGED batchVars
    /\ UNCHANGED toolVars

NextScore == AddGame \/ ReadScore

SpecScore == InitScore /\ [][NextScore]_vars

\* C18 (as claimed): for a Match whose score fields were never supplied from
\* aggregate scores, every read of score returns "<games won by team1>-<games
\* won by team2>" over the games the Match holds at the read.
C18_ScoreCountsCurrentGames ==
    score_read # None =>
        score_read[1] =
            ScoreString(GamesWonBy(match[1], match[1].team1),
                        GamesWonBy(match[1], match[1].team2))

----------------------------------------------------------------------------
(* SC2Scraper.scrape_multiple_tournaments and the DataParser it drives *)

MaxSlugs == 2        \* slugs of one batch
MaxPageBlocks == 2   \* match blocks on one tournament page

\* DataParser._get_or_create_player_by_name: the cache is keyed by the name as
\* it was passed
GetOrCreatePlayerByName(cache, nid, name) ==
    IF name \in DOMAIN cache
    THEN [player |-> cache[name], cache |-> cache, nextId |-> nid]
    ELSE [player |-> Player(nid, CleanName(name), SlugOf(CleanName(name))),
          cache |-> cache @@
              (name :> Player(nid, CleanName(name), SlugOf(CleanName(name)))),
          nextId |-> nid + 1]

\* team_key = f"{player1.name}+{player2.name}"
TeamKeyByNames(player1, player2) == player1.name \o <<"+">> \o player2.name

\* DataParser._get_or_create_team_by_players
GetOrCreateTeamByPlayers(cache, nid, name, player1, player2) ==
    IF TeamKeyByNames(player1, player2) \in DOMAIN cache
    THEN [team |-> cache[TeamKeyByNames(player1, player2)], cache |-> cache,
          nextId |-> nid]
    ELSE [team |-> Team(nid, name, player1, player2),
          cache |-> cache @@
              (TeamKeyByNames(player1, player2) :> Team(nid, name, player1, player2)),
          nextId |-> nid + 1]

\* Lines 117-127 of parse_matches_from_wikitext: four player lookups, then two
\* team lookups, each handed the result of the one before it
TeamsByName(pcache, tcache, nid, opponents) ==
    LET Result(r4, t1, t2) ==
            [team1 |-> t1.team, team2 |-> t2.team, players_cache |-> r4.cache,
             teams_cache |-> t2.cache, nextId |-> t2.nextId]
        Team2(r3, r4, t1) ==
            Result(r4, t1,
                   GetOrCreateTeamByPlayers(t1.cache, t1.nextId,
                                            DisplayName(r3.player, r4.player),
                                            r3.player, r4.player))
        Team1(r1, r2, r3, r4) ==
            Team2(r3, r4,
                  GetOrCreateTeamByPlayers(tcache, r4.nextId,
                                           DisplayName(r1.player, r2.player),
                                           r1.player, r2.player))
        Player4(r1, r2, r3) ==
            Team1(r1, r2, r3,
                  GetOrCreatePlayerByName(r3.cache, r3.nextId, Strip(opponents[4])))
        Player3(r1, r2) ==
            Player4(r1, r2,
                    GetOrCreatePlayerByName(r2.cache, r2.nextId, Strip(opponents[3])))
        Player2(r1) ==
            Player3(r1, GetOrCreatePlayerByName(r1.cache, r1.nextId,
                                                Strip(opponents[2])))
    IN  Player2(GetOrCreatePlayerByName(pcache, nid, Strip(opponents[1])))

\* A block of a tournament page: its marker and its four opponent names; the
\* blocks carry no map templates, so their matches have no games and no winner
PageBlock(marker, opponents) == [marker |-> marker, opponents |-> opponents]

\* DataParser._extract_match_content: the block of the first marker match_id
\* on the page
ExtractMatchContent(page, match_id) ==
    page[Least({k \in 1..Len(page) : page[k].marker = match_id})]

\* match_id in [m.match_id for m in tournament.matches]
IsKnownMatchId(matches, match_id) ==
    \E k \in 1..Len(matches) : matches[k].match_id = match_id

\* Lines 129-137: a repeated marker M<digits> gets the prefix A_ or B_ by its
\* index among the markers
FinalMatchIdByIndex(matches, match_id, index) ==
    IF IsKnownMatchId(matches, match_id) /\ IsGroupMarker(match_id)
    THEN (IF index < 18 THEN <<"A">> ELSE <<"B">>) \o <<"_">> \o match_id
    ELSE match_id

\* One iteration of the loop of parse_matches_from_wikitext (lines 104-157)
\* for the marker at index `index` (from 0)
ParseBlock(st, page, index) ==
    LET Appended(withTeams, unique_key, m) ==
            [withTeams EXCEPT !.processed_matches = @ \cup {unique_key},
                              !.matches = Append(@, m)]
        Keyed(t, final_match_id, withTeams, unique_key) ==
            IF unique_key \in st.processed_matches THEN withTeams
            ELSE Appended(withTeams, unique_key,
                          NewMatch(final_match_id, t.team1, t.team2))
        WithTeams(t, final_match_id) ==
            Keyed(t, final_match_id,
                  [st EXCEPT !.players_cache = t.players_cache,
                             !.teams_cache = t.teams_cache,
                             !.nextId = t.nextId],
                  UniqueKey(t.team1, t.team2, final_match_id))
    IN  WithTeams(TeamsByName(st.players_cache, st.teams_cache, st.nextId,
                              ExtractMatchContent(page, page[index + 1].marker)
                                  .opponents),
                  FinalMatchIdByIndex(st.matches, page[index + 1].marker, index))

RECURSIVE ParseBlocks(_, _, _)
\* The loop over enumerate(match_ids), from index `index`
ParseBlocks(st, page, index) ==
    IF index >= Len(page) THEN st
    ELSE ParseBlocks(ParseBlock(st, page, index), page, index + 1)

\* Lines 160-161, tournament.players.update(players_cache_by_name.values()) on
\* the empty set: the values come in the order they were created, and of
\* Players that are equal the first one stays
FirstPlayers(values) ==
    {x \in values : ~ \E y \in values : PlayerEq(y, x) /\ y.id < x.id}

\* tournament.teams.update(teams_cache_by_key.values()), likewise
FirstTeams(values) ==
    {x \in values : ~ \E y \in values : TeamEq(y, x) /\ y.id < x.id}

\* DataParser.parse_tournament_from_wikitext for a page without an infobox,
\* then parse_matches_from_wikitext: the Tournament and the parser after them
ParseTournament(pcache, tcache, nid, slug, page) ==
    LET Listed2(st) ==
            [tournament |->
                [name |-> [k \in 1..Len(slug) |->
                              IF slug[k] = "_" THEN " " ELSE slug[k]],
                 liquipedia_slug |-> slug,
                 matches |-> st.matches,
                 players |-> FirstPlayers(CachedPlayers(st.players_cache)),
                 teams |-> FirstTeams(CachedTeams(st.teams_cache))],
             players_cache |-> st.players_cache,
             teams_cache |-> st.teams_cache,
             nextId |-> st.nextId]
    IN  Listed2(ParseBlocks([players_cache |-> pcache, teams_cache |-> tcache,
                             nextId |-> nid, matches |-> <<>>,
                             processed_matches |-> {}],
                            page, 0))

\* SC2Scraper._convert_tournament_to_db_format
ConvertTournamentToDbFormat(t) ==
    [tournament |-> [name |-> t.name, liquipedia_slug |-> t.liquipedia_slug],
     players |-> {[liquipedia_slug |-> q.liquipedia_slug, name |-> q.name] :
                     q \in t.players},
     teams |-> {[name |-> u.name, player1_name |-> u.player1.name,
                 player2_name |-> u.player2.name] : u \in t.teams},
     matches |-> [k \in 1..Len(t.matches) |->
                    [match_id |-> t.matches[k].match_id,
                     team1_name |-> t.matches[k].team1.name,
                     team2_name |-> t.matches[k].team2.name]]]

RECURSIVE Split(_, _)
\* str.split(sep)
Split(str, sep) ==
    IF Find(str, sep, 0) = -1 THEN <<str>>
    ELSE <<Slice(str, 0, Find(str, sep, 0))>>
             \o Split(Slice(str, Find(str, sep, 0) + Len(sep), Len(str)), sep)

\* SC2Scraper._normalize_team_name
NormalizeTeamName(team_name) ==
    LET Joined(players) ==
            IF Len(players) = 2
            THEN Sorted2(Strip(players[1]), Strip(players[2]))[1]
                     \o <<" ", "+", " ">>
                     \o Sorted2(Strip(players[1]), Strip(players[2]))[2]
            ELSE team_name
    IN  IF team_name = <<>> \/ Find(team_name, <<" ", "+", " ">>, 0) = -1
        THEN team_name
        ELSE Joined(Split(team_name, <<" ", "+", " ">>))

\* tournament_prefix = slug.split('/')[-1]
TournamentPrefix(slug) == Split(slug, <<"/">>)[Len(Split(slug, <<"/">>))]

\* Lines 222-223: all_players[player["name"]] = player
MergePlayers(players, data) ==
    [n \in DOMAIN players \cup {q.name : q \in data} |->
        IF \E q \in data : q.name = n
        THEN CHOOSE q \in data : q.name = n
        ELSE players[n]]

\* The key and the record lines 226-239 make of a team
MergedTeamKey(team) ==
    Sorted2(team.player1_name, team.player2_name)[1] \o <<"+">>
        \o Sorted2(team.player1_name, team.player2_name)[2]
MergedTeam(team) ==
    [name |-> Sorted2(team.player1_name, team.player2_name)[1]
                  \o <<" ", "+", " ">>
                  \o Sorted2(team.player1_name, team.player2_name)[2],
     player1_name |-> Sorted2(team.player1_name, team.player2_name)[1],
     player2_name |-> Sorted2(team.player1_name, team.player2_name)[2]]

\* Lines 226-239: teams that all_teams does not hold yet are added
MergeTeams(teams, data) ==
    [key \in DOMAIN teams \cup {MergedTeamKey(u) : u \in data} |->
        IF key \in DOMAIN teams THEN teams[key]
        ELSE MergedTeam(CHOOSE u \in data : MergedTeamKey(u) = key)]

\* Lines 242-256: the matches get the slug, a prefixed id and normalized names
MergedMatches(slug, matches) ==
    [k \in 1..Len(matches) |->
        [tournament_slug |-> slug,
         match_id |-> TournamentPrefix(slug) \o <<"_">> \o matches[k].match_id,
         team1_name |-> NormalizeTeamName(matches[k].team1_name),
         team2_name |-> NormalizeTeamName(matches[k].team2_name)]]

\* The slug at index k of tournament_slugs: e/1, f/1, e/2, f/2, ... (distinct
\* slugs, some with the same last path segment)
BatchSlug(k) ==
    IF k % 2 = 1 THEN <<"e", "/">> \o Str((k + 1) \div 2)
    ELSE <<"f", "/">> \o Str(k \div 2)

NameUpperA == <<"A">>

\* The blocks of the pages: a group block, a bracket block that names the
\* first pair in the other order, and a second group block M1 with another
\* spelling of the first player
BlockChoices ==
    {PageBlock(MarkerM1, <<NameA, NameB, NameC, NameD>>),
     PageBlock(<<"R", "1">>, <<NameB, NameA, NameC, NameD>>),
     PageBlock(MarkerM1, <<NameUpperA, NameB, NameC, NameD>>)}

BatchPages == UNION {[1..n -> BlockChoices] : n \in 0..MaxPageBlocks}

\* What the client does for one slug: it returns no page, it raises after its
\* retries, or it returns a page
FetchOutcomes ==
    {[kind |-> "none", page |-> <<>>], [kind |-> "raise", page |-> <<>>]}
    \cup {[kind |-> "page", page |-> pg] : pg \in BatchPages}

\* SC2Scraper.__init__ and the start of scrape_multiple_tournaments
InitBatch ==
    /\ NewParser
    /\ players_cache_by_name = EmptyDict
    /\ teams_cache_by_key = EmptyDict
    /\ fetch_plan \in UNION {[1..n -> FetchOutcomes] : n \in 0..MaxSlugs}
    /\ batch_pc = "clear"
    /\ slug_index = 1
    /\ page_content = None
    /\ tournament_data = None
    /\ all_tournaments = <<>>
    /\ all_players = EmptyDict
    /\ all_teams = EmptyDict
    /\ all_matches = <<>>
    /\ result = None
    /\ DriverIdle
    /\ PageIdle
    /\ MatchIdle
    /\ ExtractIdle
    /\ ScoreIdle
    /\ ToolIdle

BatchRest ==
    /\ UNCHANGED driverVars
    /\ UNCHANGED pageVars
    /\ UNCHANGED matchVars
    /\ UNCHANGED extractVars
    /\ UNCHANGED scoreVars
    /\ UNCHANGED toolVars

\* Lines 212-214: self.parser.players_cache.clear(), teams_cache.clear()
ClearCaches ==
    /\ batch_pc = "clear"
    /\ slug_index <= Len(fetch_plan)
    /\ players_cache' = EmptyDict
    /\ teams_cache' = EmptyDict
    /\ batch_pc' = "fetch"
    /\ UNCHANGED <<nextId, fetch_plan, slug_index, players_cache_by_name,
                   teams_cache_by_key, page_content, tournament_data,
                   all_tournaments, all_players, all_teams, all_matches, result>>
    /\ BatchRest

\* scrape_tournament: get_page_content returns None, scrape_tournament returns
\* None and the loop goes on with the next slug
FetchNone ==
    /\ batch_pc = "fetch"
    /\ fetch_plan[slug_index].kind = "none"
    /\ page_content' = None
    /\ tournament_data' = None
    /\ slug_index' = slug_index + 1
    /\ batch_pc' = "clear"
    /\ UNCHANGED <<fetch_plan, players_cache_by_name, teams_cache_by_key,
                   all_tournaments, all_players, all_teams, all_matches, result>>
    /\ UNCHANGED cacheVars
    /\ BatchRest

\* scrape_tournament: _make_request raises after its last attempt
\* (reraise=True); nothing catches it on the way out of
\* scrape_multiple_tournaments
FetchRaises ==
    /\ batch_pc = "fetch"
    /\ fetch_plan[slug_index].kind = "raise"
    /\ batch_pc' = "raised"
    /\ UNCHANGED <<fetch_plan, slug_index, players_cache_by_name,
                   teams_cache_by_key, page_content, tournament_data,
                   all_tournaments, all_players, all_teams, all_matches, result>>
    /\ UNCHANGED cacheVars
    /\ BatchRest

\* scrape_tournament: get_page_content returns the page
FetchPage ==
    /\ batch_pc = "fetch"
    /\ fetch_plan[slug_index].kind = "page"
    /\ page_content' = Some(fetch_plan[slug_index].page)
    /\ batch_pc' = "parse"
    /\ UNCHANGED <<fetch_plan, slug_index, players_cache_by_name,
                   teams_cache_by_key, tournament_data,
                   all_tournaments, all_players, all_teams, all_matches, result>>
    /\ UNCHANGED cacheVars
    /\ BatchRest

\* scrape_tournament, lines 182-192: the page is parsed and converted
ParsePage ==
    /\ batch_pc = "parse"
    /\ \E r \in {ParseTournament(players_cache_by_name, teams_cache_by_key, nextId,
                                 BatchSlug(slug_index), page_content[1])} :
          /\ players_cache_by_name' = r.players_cache
          /\ teams_cache_by_key' = r.teams_cache
          /\ nextId' = r.nextId
          /\ tournament_data' = Some(ConvertTournamentToDbFormat(r.tournament))
    /\ batch_pc' = "merge"
    /\ UNCHANGED <<players_cache, teams_cache, fetch_plan, slug_index, page_content,
                   all_tournaments, all_players, all_teams, all_matches, result>>
    /\ BatchRest

\* Lines 217-256: the data of the tournament is merged into the batch
MergeData ==
    /\ batch_pc = "merge"
    /\ all_tournaments' = Append(all_tournaments, tournament_data[1].tournament)
    /\ all_players' = MergePlayers(all_players, tournament_data[1].players)
    /\ all_teams' = MergeTeams(all_teams, tournament_data[1].teams)
    /\ all_matches' =
          all_matches \o MergedMatches(BatchSlug(slug_index), tournament_data[1].matches)
    /\ slug_index' = slug_index + 1
    /\ batch_pc' = "clear"
    /\ UNCHANGED <<fetch_plan, players_cache_by_name, teams_cache_by_key,
                   page_content, tournament_data, result>>
    /\ UNCHANGED cacheVars
    /\ BatchRest

\* Lines 258-263: the loop is over and the merged data is returned
ReturnResult ==
    /\ batch_pc = "clear"
    /\ slug_index > Len(fetch_plan)
    /\ result' = Some([tournaments |-> all_tournaments,
                       players |-> {all_players[n] : n \in DOMAIN all_players},
                       teams |-> {all_teams[key] : key \in DOMAIN all_teams},
                       matches |-> all_matches])
    /\ batch_pc' = "done"
    /\ UNCHANGED <<fetch_plan, slug_index, players_cache_by_name,
                   teams_cache_by_key, page_content, tournament_data,
                   all_tournaments, all_players, all_teams, all_matches>>
    /\ UNCHANGED cacheVars
    /\ BatchRest

NextBatch ==
    \/ ClearCaches
    \/ FetchNone
    \/ FetchRaises
    \/ FetchPage
    \/ ParsePage
    \/ MergeData
    \/ ReturnResult

SpecBatch == InitBatch /\ [][NextBatch]_vars

\* The player names the blocks of a page mention
NamesOnPage(page) ==
    {Strip(page[k].opponents[n]) : k \in 1..Len(page), n \in 1..4}

\* C19 (as claimed): when the parse of a tournament page starts, the player and
\* team caches the parse reads and fills are empty, and the players and teams
\* listed for the tournament are those of its own page.
C19_CachesEmptyAtEachParse ==
    /\ batch_pc = "parse" =>
          /\ players_cache_by_name = EmptyDict
          /\ teams_cache_by_key = EmptyDict
    /\ batch_pc = "merge" =>
          /\ \A q \in tournament_data[1].players :
                q.name \in NamesOnPage(page_content[1])
          /\ \A u \in tournament_data[1].teams :
                {u.player1_name, u.player2_name} \subseteq NamesOnPage(page_content[1])

\* C20 (as claimed): the batch call returns, and every slug whose page the
\* client delivers is in the returned result whatever happens to the fetches
\* of the other slugs.
C20_FailedFetchAbortsOnlyItsTournament ==
    batch_pc \in {"done", "raised"} =>
        /\ result # None
        /\ \A k \in 1..Len(fetch_plan) :
              fetch_plan[k].kind = "page" =>
                  \E n \in 1..Len(result[1].tournaments) :
                      result[1].tournaments[n].liquipedia_slug = BatchSlug(k)

\* C21 (as claimed): the teams the wikitext path caches for the same two
\* Player instances, in either order, are one Team instance.
C21_TeamByPlayersSymmetric ==
    \A k1, k2 \in DOMAIN teams_cache_by_key :
        {teams_cache_by_key[k1].player1.id, teams_cache_by_key[k1].player2.id}
            = {teams_cache_by_key[k2].player1.id, teams_cache_by_key[k2].player2.id}
        => teams_cache_by_key[k1].id = teams_cache_by_key[k2].id

\* The team names a Match built from the block carries
BlockTeamNames(block) ==
    <<CleanName(Strip(block.opponents[1])) \o <<" ", "+", " ">>
          \o CleanName(Strip(block.opponents[2])),
      CleanName(Strip(block.opponents[3])) \o <<" ", "+", " ">>
          \o CleanName(Strip(block.opponents[4]))>>

\* C22 (as claimed): a page of two M1 blocks with different opponents yields
\* two matches, each with the opponents of the block at its own marker.
C22_MatchBuiltFromOwnBlock ==
    (/\ batch_pc = "merge"
     /\ Len(page_content[1]) = 2
     /\ page_content[1][1].marker = page_content[1][2].marker
     /\ page_content[1][1].opponents # page_content[1][2].opponents) =>
        /\ Len(tournament_data[1].matches) = 2
        /\ \A k \in 1..2 :
              <<tournament_data[1].matches[k].team1_name,
                tournament_data[1].matches[k].team2_name>>
                  = BlockTeamNames(page_content[1][k])

\* C26 (as claimed): the match ids of the returned matches are pairwise
\* distinct across the tournaments of a batch of distinct slugs.
C26_BatchMatchIdsDistinct ==
    batch_pc = "done" =>
        \A a, b \in 1..Len(result[1].matches) :
            a # b => result[1].matches[a].match_id # result[1].matches[b].match_id

\* C27 (as claimed): the returned teams hold one entry per unordered pair of
\* player names, named with the players in sorted order, and the team names of
\* every returned match are names of returned teams.
C27_BatchTeamsCoverMatches ==
    batch_pc = "done" =>
        /\ \A u, v \in result[1].teams :
              {u.player1_name, u.player2_name} = {v.player1_name, v.player2_name}
                  => u = v
        /\ \A u \in result[1].teams :
              /\ ~ StrLess(u.player2_name, u.player1_name)
              /\ u.name = u.player1_name \o <<" ", "+", " ">> \o u.player2_name
        /\ \A k \in 1..Len(result[1].matches) :
              /\ \E u \in result[1].teams : u.name = result[1].matches[k].team1_name
              /\ \E u \in result[1].teams : u.name = result[1].matches[k].team2_name

----------------------------------------------------------------------------
(* sc2_scraper.SC2Scraper: the task queue of scrape_all *)

MaxRetries == 2      \* largest config.max_retries
MaxQueued == 2       \* tournaments the caller queues or scrapes in one session

\* The slug of the k-th tournament the caller names: e/1, f/1, e/2, ...
QueueSlug(k) == BatchSlug(k)

Priorities == {1, 2, 3}

\* ScrapingTask(tournament_slug, priority, retry_count, max_retries); origin
\* names the task of the caller that a retry task descends from
ScrapingTask(tournament_slug, priority, retry_count, maxr, origin) ==
    [tournament_slug |-> tournament_slug, priority |-> priority,
     retry_count |-> retry_count, max_retries |-> maxr, origin |-> origin]

\* ScrapingResult(tournament_slug, success)
ScrapingResult(tournament_slug, success) ==
    [tournament_slug |-> tournament_slug, success |-> success]

ShouldRetry_Inclusive(task) == task.retry_count <= task.max_retries

\* ScrapingTask.should_retry
ShouldRetry(task) == task.retry_count < task.max_retries

\* The retry task _scrape_tournament makes after task.increment_retry()
RetryTask(task) ==
    ScrapingTask(task.tournament_slug,
                 IF task.priority - 1 > 1 THEN task.priority - 1 ELSE 1,
                 task.retry_count + 1, task.max_retries, task.origin)

\* The place of seq[k] after seq.sort(key=priority, reverse=True): the sort is
\* stable, tasks of one priority keep their order
SortRank(seq, k) ==
    1 + Cardinality({j \in 1..Len(seq) :
                        \/ seq[j].priority > seq[k].priority
                        \/ seq[j].priority = seq[k].priority /\ j < k})

\* self.tasks.sort(key=lambda t: t.priority, reverse=True)
SortTasks(seq) ==
    [n \in 1..Len(seq) |-> seq[CHOOSE k \in 1..Len(seq) : SortRank(seq, k) = n]]

\* The except branch of _scrape_tournament for the task at index k of the
\* queue: the task counts the retry and a retry task is appended
QueueAfterFailure(queue, k) ==
    IF ShouldRetry(queue[k])
    THEN Append([queue EXCEPT ![k].retry_count = @ + 1], RetryTask(queue[k]))
    ELSE queue

\* SC2Scraper.__init__
InitQueue ==
    /\ max_retries \in 0..MaxRetries
    /\ tasks = <<>>
    /\ task_index = 0
    /\ scrape_pc = "idle"
    /\ results = <<>>
    /\ session_results = <<>>
    /\ scrape_ret = None
    /\ attempts = EmptyDict
    /\ next_origin = 1
    /\ NewParser
    /\ DriverIdle
    /\ PageIdle
    /\ MatchIdle
    /\ ExtractIdle
    /\ ScoreIdle
    /\ BatchIdle
    /\ EnhIdle
    /\ DbIdle

QueueRest ==
    /\ UNCHANGED cacheVars
    /\ UNCHANGED driverVars
    /\ UNCHANGED pageVars
    /\ UNCHANGED matchVars
    /\ UNCHANGED extractVars
    /\ UNCHANGED scoreVars
    /\ UNCHANGED batchVars
    /\ UNCHANGED enhVars
    /\ UNCHANGED dbVars

\* SC2Scraper.add_tournament
AddTournament(tournament_slug, priority) ==
    /\ scrape_pc = "idle"
    /\ next_origin <= MaxQueued
    /\ tasks' = Append(tasks, ScrapingTask(tournament_slug, priority, 0,
                                           max_retries, next_origin))
    /\ attempts' = attempts @@ (next_origin :> 0)
    /\ next_origin' = next_origin + 1
    /\ UNCHANGED <<max_retries, task_index, scrape_pc, results, session_results,
                   scrape_ret>>
    /\ QueueRest

\* SC2Scraper.scrape_tournament: one attempt on a task of its own; a failure
\* leaves a retry task in the queue
ScrapeTournament(tournament_slug, ok) ==
    /\ scrape_pc = "idle"
    /\ next_origin <= MaxQueued
    /\ tasks' =
          IF ok THEN tasks
          ELSE LET added == Append(tasks, ScrapingTask(tournament_slug, 1, 0,
                                                       max_retries, next_origin))
                   after == QueueAfterFailure(added, Len(added))
               IN  [k \in 1..(Len(after) - 1) |->
                       IF k <= Len(tasks) THEN after[k] ELSE after[k + 1]]
    /\ attempts' = attempts @@ (next_origin :> 1)
    /\ next_origin' = next_origin + 1
    /\ session_results' =
          Append(session_results, ScrapingResult(tournament_slug, ok))
    /\ UNCHANGED <<max_retries, task_index, scrape_pc, results, scrape_ret>>
    /\ QueueRest

\* scrape_all, lines 60-62: nothing is queued
ScrapeAllEmpty ==
    /\ scrape_pc = "idle"
    /\ tasks = <<>>
    /\ scrape_ret' = Some(<<>>)
    /\ UNCHANGED <<max_retries, tasks, task_index, scrape_pc, results,
                   session_results, attempts, next_origin>>
    /\ QueueRest

\* scrape_all, lines 64-68: the queue is sorted and the loop starts
ScrapeAllStart ==
    /\ scrape_pc = "idle"
    /\ tasks # <<>>
    /\ tasks' = SortTasks(tasks)
    /\ results' = <<>>
    /\ task_index' = 1
    /\ scrape_pc' = "loop"
    /\ scrape_ret' = None
    /\ UNCHANGED <<max_retries, session_results, attempts, next_origin>>
    /\ QueueRest

\* One iteration of "for task in self.tasks" (lines 70-79) with the call of
\* _scrape_tournament it makes; the loop sees the tasks appended meanwhile
ScrapeStep(ok) ==
    /\ scrape_pc = "loop"
    /\ task_index <= Len(tasks)
    /\ tasks' = IF ok THEN tasks ELSE QueueAfterFailure(tasks, task_index)
    /\ attempts' = [attempts EXCEPT ![tasks[task_index].origin] = @ + 1]
    /\ results' =
          Append(results, ScrapingResult(tasks[task_index].tournament_slug, ok))
    /\ session_results' =
          Append(session_results,
                 ScrapingResult(tasks[task_index].tournament_slug, ok))
    /\ task_index' = task_index + 1
    /\ UNCHANGED <<max_retries, scrape_pc, scrape_ret, next_origin>>
    /\ QueueRest

\* scrape_all, lines 81-85: the loop is over, the queue is cleared
ScrapeAllReturn ==
    /\ scrape_pc = "loop"
    /\ task_index > Len(tasks)
    /\ tasks' = <<>>
    /\ task_index' = 0
    /\ scrape_pc' = "idle"
    /\ scrape_ret' = Some(results)
    /\ UNCHANGED <<max_retries, results, session_results, attempts, next_origin>>
    /\ QueueRest

NextQueue ==
    \/ \E priority \in Priorities : AddTournament(QueueSlug(next_origin), priority)
    \/ \E ok \in BOOLEAN : ScrapeTournament(QueueSlug(next_origin), ok)
    \/ ScrapeAllEmpty
    \/ ScrapeAllStart
    \/ \E ok \in BOOLEAN : ScrapeStep(ok)
    \/ ScrapeAllReturn

SpecQueue == InitQueue /\ [][NextQueue]_vars

\* A call of scrape_all that has started runs on: its loop body and its return
\* are steps of one synchronous call
SpecQueueFair ==
    /\ InitQueue
    /\ [][NextQueue]_vars
    /\ WF_vars(\E ok \in BOOLEAN : ScrapeStep(ok))
    /\ WF_vars(ScrapeAllReturn)

\* C23: scrape_all terminates whatever the attempts do: no queued tournament
\* is attempted more than max_retries + 1 times, a started call returns, and
\* the queue is empty when it returns.
C23_ScrapeAllTerminates ==
    /\ [](\A o \in DOMAIN attempts : attempts[o] <= max_retries + 1)
    /\ [][scrape_pc = "loop" /\ scrape_pc' = "idle"
             => tasks' = <<>> /\ scrape_ret' # None]_vars
    /\ [](scrape_pc = "loop" => <>(scrape_pc = "idle"))

\* A call that returned after every attempt failed, with a tournament that
\* was attempted max_retries + 1 > 1 times
C23_Witness ==
    /\ scrape_pc = "idle"
    /\ scrape_ret # None
    /\ scrape_ret[1] # <<>>
    /\ \A k \in 1..Len(scrape_ret[1]) : ~ scrape_ret[1][k].success
    /\ tasks = <<>>
    /\ max_retries > 0
    /\ \E o \in DOMAIN attempts : attempts[o] = max_retries + 1

\* C24 (as claimed): during one call of scrape_all no processed task has a
\* higher priority than the task processed before it, retry tasks included.
C24_ProcessedInPriorityOrder ==
    scrape_pc = "loop" =>
        \A k \in 2..(task_index - 1) : tasks[k].priority <= tasks[k - 1].priority

----------------------------------------------------------------------------
(* enhanced_scraper.EnhancedScraper: the task queue of process_tasks *)

MaxAdded == 3        \* add_task calls the caller makes in one session

DefaultMaxRetries == 3

EventSlugs == {<<"e">>, <<"f">>}
EventPriorities == {1, 2}

\* enhanced_scraper.ScrapingTask(event_slug, priority): retry_count 0 and
\* max_retries 3 by default
EventTask(event_slug, priority) ==
    [event_slug |-> event_slug, priority |-> priority, retry_count |-> 0,
     max_retries |-> DefaultMaxRetries]

\* enhanced_scraper.ScrapingResult(event_slug, success)
EventResult(event_slug, success) ==
    [event_slug |-> event_slug, success |-> success]

\* EnhancedScraper.add_task on the queue
AddTaskTo(queue, processed, event_slug, priority) ==
    IF event_slug \notin processed
    THEN Append(queue, EventTask(event_slug, priority))
    ELSE queue

\* [t.event_slug for t in self.tasks]
QueuedSlugs(queue) == {queue[k].event_slug : k \in 1..Len(queue)}

\* The except branch of _process_task (lines 184-196) for the task at index k
ProcessFailure(queue, processed, k) ==
    LET Counted(counted) ==
            IF queue[k].event_slug \notin QueuedSlugs(counted)
            THEN AddTaskTo(counted, processed, queue[k].event_slug,
                           queue[k].priority - 1)
            ELSE counted
    IN  IF ShouldRetry(queue[k])
        THEN Counted([queue EXCEPT ![k].retry_count = @ + 1])
        ELSE queue

\* EnhancedScraper.__init__
InitEnh ==
    /\ enh_tasks = <<>>
    /\ enh_index = 0
    /\ enh_pc = "idle"
    /\ enh_results = <<>>
    /\ enh_session_results = <<>>
    /\ processed_slugs = {}
    /\ enh_ret = None
    /\ enh_added = 0
    /\ NewParser
    /\ DriverIdle
    /\ PageIdle
    /\ MatchIdle
    /\ ExtractIdle
    /\ ScoreIdle
    /\ BatchIdle
    /\ QueueIdle
    /\ DbIdle

EnhRest ==
    /\ UNCHANGED cacheVars
    /\ UNCHANGED driverVars
    /\ UNCHANGED pageVars
    /\ UNCHANGED matchVars
    /\ UNCHANGED extractVars
    /\ UNCHANGED scoreVars
    /\ UNCHANGED batchVars
    /\ UNCHANGED queueVars
    /\ UNCHANGED dbVars

\* EnhancedScraper.add_task, called by the user of the scraper
AddTask(event_slug, priority) ==
    /\ enh_pc = "idle"
    /\ enh_added < MaxAdded
    /\ enh_tasks' = AddTaskTo(enh_tasks, processed_slugs, event_slug, priority)
    /\ enh_added' = enh_added + 1
    /\ UNCHANGED <<enh_index, enh_pc, enh_results, enh_session_results,
                   processed_slugs, enh_ret>>
    /\ EnhRest

\* process_tasks, lines 87-89: nothing is queued
ProcessTasksEmpty ==
    /\ enh_pc = "idle"
    /\ enh_tasks = <<>>
    /\ enh_ret' = Some(<<>>)
    /\ UNCHANGED <<enh_tasks, enh_index, enh_pc, enh_results,
                   enh_session_results, processed_slugs, enh_added>>
    /\ EnhRest

\* process_tasks, lines 91-96: the queue is sorted and the loop starts
ProcessTasksStart ==
    /\ enh_pc = "idle"
    /\ enh_tasks # <<>>
    /\ enh_tasks' = SortTasks(enh_tasks)
    /\ enh_results' = <<>>
    /\ enh_index' = 1
    /\ enh_pc' = "loop"
    /\ enh_ret' = None
    /\ UNCHANGED <<enh_session_results, processed_slugs, enh_added>>
    /\ EnhRest

\* One iteration of "for task in self.tasks" (lines 98-117) with the call of
\* _process_task it makes: ok when the cache or the client delivers the data
ProcessStep(ok) ==
    /\ enh_pc = "loop"
    /\ enh_index <= Len(enh_tasks)
    /\ enh_tasks' =
          IF ok THEN enh_tasks
          ELSE ProcessFailure(enh_tasks, processed_slugs, enh_index)
    /\ processed_slugs' =
          IF ok THEN processed_slugs \cup {enh_tasks[enh_index].event_slug}
          ELSE processed_slugs
    /\ enh_results' =
          Append(enh_results, EventResult(enh_tasks[enh_index].event_slug, ok))
    /\ enh_index' = enh_index + 1
    /\ UNCHANGED <<enh_pc, enh_session_results, enh_ret, enh_added>>
    /\ EnhRest

\* process_tasks, lines 119-123: the results are stored, the queue is cleared
ProcessTasksReturn ==
    /\ enh_pc = "loop"
    /\ enh_index > Len(enh_tasks)
    /\ enh_session_results' = enh_session_results \o enh_results
    /\ enh_tasks' = <<>>
    /\ enh_index' = 0
    /\ enh_pc' = "idle"
    /\ enh_ret' = Some(enh_results)
    /\ UNCHANGED <<enh_results, processed_slugs, enh_added>>
    /\ EnhRest

NextEnh ==
    \/ \E slug \in EventSlugs, priority \in EventPriorities : AddTask(slug, priority)
    \/ ProcessTasksEmpty
    \/ ProcessTasksStart
    \/ \E ok \in BOOLEAN : ProcessStep(ok)
    \/ ProcessTasksReturn

SpecEnh == InitEnh /\ [][NextEnh]_vars

\* C25 (as claimed): when processing a task fails and the task has retries
\* left, its slug is in the queue again behind it, with a lower priority, so
\* that it is attempted again.
C25_FailedTaskRequeued ==
    [][(/\ enh_pc = "loop"
        /\ enh_index' = enh_index + 1
        /\ ~ enh_results'[Len(enh_results')].success
        /\ enh_tasks[enh_index].retry_count < enh_tasks[enh_index].max_retries)
       => \E k \in (enh_index + 1)..Len(enh_tasks') :
             /\ enh_tasks'[k].event_slug = enh_tasks[enh_index].event_slug
             /\ enh_tasks'[k].priority < enh_tasks[enh_index].priority]_vars

----------------------------------------------------------------------------
(* tools/scraper DataParser: Players of the LPDB path and of the wikitext path *)

\* Player names, as _parse_team_from_opponent and _extract_opponents pass them
\* (already stripped)
RowNames == {<<"a">>, <<"A">>, <<"A", " ", "a">>, <<"b">>}

\* DataParser._get_or_create_player of tools/scraper: slug = name.replace(' ', '_')
GetOrCreatePlayerByRow(cache, nid, name) ==
    IF ReplaceSpaces(name) \in DOMAIN cache
    THEN [player |-> cache[ReplaceSpaces(name)], cache |-> cache, nextId |-> nid]
    ELSE [player |-> Player(nid, name, ReplaceSpaces(name)),
          cache |-> cache @@
              (ReplaceSpaces(name) :> Player(nid, name, ReplaceSpaces(name))),
          nextId |-> nid + 1]

\* DataParser.__init__
InitRows ==
    /\ NewParser
    /\ players_cache_by_name = EmptyDict
    /\ teams_cache_by_key = EmptyDict
    /\ fetch_plan = <<>>
    /\ batch_pc = "idle"
    /\ slug_index = 0
    /\ page_content = <<>>
    /\ tournament_data = <<>>
    /\ all_tournaments = <<>>
    /\ all_players = EmptyDict
    /\ all_teams = EmptyDict
    /\ all_matches = <<>>
    /\ result = <<>>
    /\ DriverIdle
    /\ PageIdle
    /\ MatchIdle
    /\ ExtractIdle
    /\ ScoreIdle
    /\ ToolIdle

RowsRest ==
    /\ UNCHANGED <<fetch_plan, batch_pc, slug_index, teams_cache_by_key,
                   page_content, tournament_data, all_tournaments, all_players,
                   all_teams, all_matches, result>>
    /\ UNCHANGED teams_cache
    /\ UNCHANGED driverVars
    /\ UNCHANGED pageVars
    /\ UNCHANGED matchVars
    /\ UNCHANGED extractVars
    /\ UNCHANGED scoreVars
    /\ UNCHANGED toolVars

\* One call self._get_or_create_player(name), the LPDB row path
RowPlayer(name) ==
    /\ \E r \in {GetOrCreatePlayerByRow(players_cache, nextId, name)} :
          /\ players_cache' = r.cache
          /\ nextId' = r.nextId
    /\ UNCHANGED players_cache_by_name
    /\ RowsRest

\* One call self._get_or_create_player_by_name(name), the wikitext path
WikitextPlayer(name) ==
    /\ \E r \in {GetOrCreatePlayerByName(players_cache_by_name, nextId, name)} :
          /\ players_cache_by_name' = r.cache
          /\ nextId' = r.nextId
    /\ UNCHANGED players_cache
    /\ RowsRest

NextRows ==
    \/ \E name \in RowNames : RowPlayer(name)
    \/ \E name \in RowNames : WikitextPlayer(name)

SpecRows == InitRows /\ [][NextRows]_vars

\* The slug of a display name: lowercased, spaces replaced by underscores
DisplaySlug(name) == ReplaceSpaces(Lower(name))

\* C28 (as claimed): every Player of either path has the slug of its display
\* name, lowercased with underscores for spaces, so one name has one slug on
\* both paths.
C28_SlugFromDisplayName ==
    /\ \A k \in DOMAIN players_cache :
          players_cache[k].liquipedia_slug = DisplaySlug(players_cache[k].name)
    /\ \A k \in DOMAIN players_cache_by_name :
          players_cache_by_name[k].liquipedia_slug
              = DisplaySlug(players_cache_by_name[k].name)
    /\ \A k \in DOMAIN players_cache, n \in DOMAIN players_cache_by_name :
          players_cache[k].name = players_cache_by_name[n].name
              => players_cache[k].liquipedia_slug
                     = players_cache_by_name[n].liquipedia_slug

----------------------------------------------------------------------------
(* database_inserter.get_or_create_team_id over one insertion run *)

MaxTeamCalls == 3    \* calls of get_or_create_team_id in one run

Plus == <<" ", "+", " ">>

\* The team names handed in: a pair in both orders, a second pair, a name
\* with wider spacing, and two names that are not pairs
TeamNames ==
    {NameA \o Plus \o NameB,
     NameB \o Plus \o NameA,
     NameB \o Plus \o NameC,
     NameB \o <<" ">> \o Plus \o <<" ">> \o NameA,
     NameA,
     NameA \o Plus \o NameB \o Plus \o NameC}

\* What the database does to the inserts of one call: whether the upsert of
\* the first player, of the second player and of the team raises
InsertOutcomes == [p1 : BOOLEAN, p2 : BOOLEAN, team : BOOLEAN]

TeamIdKey_Unsorted(player1_name, player2_name) == <<player1_name, player2_name>>

\* team_key = (normalized_players[0], normalized_players[1])
TeamIdKey(player1_name, player2_name) == Sorted2(player1_name, player2_name)

\* inserter.insert_player(name, liquipedia_slug) called for a name that
\* player_id_map lacks: an upsert on liquipedia_slug, or DatabaseError
InsertPlayer(st, name, ok) ==
    LET Stored(logged, slug) ==
            IF slug \in DOMAIN st.db_players
            THEN [logged EXCEPT
                     !.player_id_map = @ @@ (name :> st.db_players[slug])]
            ELSE [logged EXCEPT
                     !.db_players = @ @@ (slug :> st.db_next_id),
                     !.player_id_map = @ @@ (name :> st.db_next_id),
                     !.db_next_id = @ + 1]
        Logged(logged) ==
            IF ok THEN Stored(logged, ReplaceSpaces(Lower(name))) ELSE logged
    IN  Logged([st EXCEPT !.insert_player_log =
                              Append(@, [name |-> name, ok |-> ok])])

\* inserter.insert_team(name, player1_id, player2_id) for a key that
\* team_id_map lacks: an upsert on (player1_id, player2_id), or DatabaseError
InsertTeam(st, key, ok) ==
    LET Stored(logged, ids) ==
            IF ids \in DOMAIN st.db_teams
            THEN [logged EXCEPT !.team_id_map = @ @@ (key :> st.db_teams[ids])]
            ELSE [logged EXCEPT
                     !.db_teams = @ @@ (ids :> st.db_next_id),
                     !.team_id_map = @ @@ (key :> st.db_next_id),
                     !.db_next_id = @ + 1]
        Logged(logged) ==
            IF ok
            THEN Stored(logged, <<st.player_id_map[key[1]], st.player_id_map[key[2]]>>)
            ELSE logged
    IN  Logged([st EXCEPT !.insert_team_log =
                              Append(@, [key |-> key, ok |-> ok])])

\* get_or_create_team_id(team_name, player_id_map, team_id_map, inserter): the
\* maps and the database after the call, what it returned, and whether an
\* insert raised
GetOrCreateTeamId(st, team_name, raises) ==
    LET Ret(s, r, failed) == [state |-> s, ret |-> r, failed |-> failed]
        Created(s, key) == Ret(s, Some(s.team_id_map[key]), FALSE)
        TeamOf(s, key) ==
            IF key \in DOMAIN s.team_id_map THEN Created(s, key)
            ELSE IF raises.team THEN Ret(InsertTeam(s, key, FALSE), None, TRUE)
            ELSE Created(InsertTeam(s, key, TRUE), key)
        Second(s, n1, n2) ==
            IF n2 \in DOMAIN s.player_id_map THEN TeamOf(s, TeamIdKey(n1, n2))
            ELSE IF raises.p2 THEN Ret(InsertPlayer(s, n2, FALSE), None, TRUE)
            ELSE TeamOf(InsertPlayer(s, n2, TRUE), TeamIdKey(n1, n2))
        First(n1, n2) ==
            IF n1 \in DOMAIN st.player_id_map THEN Second(st, n1, n2)
            ELSE IF raises.p1 THEN Ret(InsertPlayer(st, n1, FALSE), None, TRUE)
            ELSE Second(InsertPlayer(st, n1, TRUE), n1, n2)
        Parsed(player_names) ==
            IF Len(player_names) # 2 THEN Ret(st, None, FALSE)
            ELSE First(Strip(player_names[1]), Strip(player_names[2]))
    IN  IF team_name = <<>> \/ Find(team_name, Plus, 0) = -1
        THEN Ret(st, None, FALSE)
        ELSE Parsed(Split(team_name, Plus))

\* The start of an insertion run: empty maps and an empty database
InitDb ==
    /\ player_id_map = EmptyDict
    /\ team_id_map = EmptyDict
    /\ db_players = EmptyDict
    /\ db_teams = EmptyDict
    /\ db_next_id = 1
    /\ insert_player_log = <<>>
    /\ insert_team_log = <<>>
    /\ team_id_log = <<>>
    /\ NewParser
    /\ DriverIdle
    /\ PageIdle
    /\ MatchIdle
    /\ ExtractIdle
    /\ ScoreIdle
    /\ BatchIdle
    /\ QueueIdle
    /\ EnhIdle

\* One call of get_or_create_team_id
TeamIdCall(team_name, raises) ==
    /\ Len(team_id_log) < MaxTeamCalls
    /\ \E r \in {GetOrCreateTeamId(
                    [player_id_map |-> player_id_map, team_id_map |-> team_id_map,
                     db_players |-> db_players, db_teams |-> db_teams,
                     db_next_id |-> db_next_id,
                     insert_player_log |-> insert_player_log,
                     insert_team_log |-> insert_team_log],
                    team_name, raises)} :
          /\ player_id_map' = r.state.player_id_map
          /\ team_id_map' = r.state.team_id_map
          /\ db_players' = r.state.db_players
          /\ db_teams' = r.state.db_teams
          /\ db_next_id' = r.state.db_next_id
          /\ insert_player_log' = r.state.insert_player_log
          /\ insert_team_log' = r.state.insert_team_log
          /\ team_id_log' =
                Append(team_id_log, [team_name |-> team_name, ret |-> r.ret,
                                     failed |-> r.failed])
    /\ UNCHANGED cacheVars
    /\ UNCHANGED driverVars
    /\ UNCHANGED pageVars
    /\ UNCHANGED matchVars
    /\ UNCHANGED extractVars
    /\ UNCHANGED scoreVars
    /\ UNCHANGED batchVars
    /\ UNCHANGED queueVars
    /\ UNCHANGED enhVars

NextDb == \E team_name \in TeamNames, raises \in InsertOutcomes :
              TeamIdCall(team_name, raises)

SpecDb == InitDb /\ [][NextDb]_vars

\* The unordered pair of player names a team name stands for
PairOf(team_name) ==
    {Strip(Split(team_name, Plus)[k]) : k \in 1..Len(Split(team_name, Plus))}

IsPairName(team_name) == Len(Split(team_name, Plus)) = 2

\* Calls for one pair that returned an id returned the same id
SameIdForOnePair ==
    \A a, b \in 1..Len(team_id_log) :
        (/\ IsPairName(team_id_log[a].team_name)
         /\ IsPairName(team_id_log[b].team_name)
         /\ PairOf(team_id_log[a].team_name) = PairOf(team_id_log[b].team_name)
         /\ team_id_log[a].ret # None
         /\ team_id_log[b].ret # None)
        => team_id_log[a].ret = team_id_log[b].ret

\* A call in which an insert raised returned None, and team_id_map holds
\* exactly the keys of the team inserts that succeeded
FailedCallAddsNothing ==
    /\ \A a \in 1..Len(team_id_log) :
          team_id_log[a].failed => team_id_log[a].ret = None
    /\ DOMAIN team_id_map =
          {insert_team_log[a].key :
              a \in {b \in 1..Len(insert_team_log) : insert_team_log[b].ok}}

\* C29 (as claimed): for any sequence of calls "A + B" and "B + A" return the
\* same team id, insert_team is called at most once per unordered pair of
\* names, insert_player at most once per name, and a call in which an insert
\* fails returns None and adds nothing to team_id_map.
C29_InsertsAtMostOnce ==
    /\ SameIdForOnePair
    /\ \A a, b \in 1..Len(insert_team_log) :
          {insert_team_log[a].key[1], insert_team_log[a].key[2]}
              = {insert_team_log[b].key[1], insert_team_log[b].key[2]} => a = b
    /\ \A a, b \in 1..Len(insert_player_log) :
          insert_player_log[a].name = insert_player_log[b].name => a = b
    /\ FailedCallAddsNothing

\* C29 (amended): as claimed, but an insert is repeated after it has failed:
\* insert_team is not called again for a pair once it has succeeded for it,
\* and insert_player not again for a name once it has succeeded for it.
C29_InsertsOnceUnlessFailed ==
    /\ SameIdForOnePair
    /\ \A a, b \in 1..Len(insert_team_log) :
          (/\ a < b
           /\ {insert_team_log[a].key[1], insert_team_log[a].key[2]}
                  = {insert_team_log[b].key[1], insert_team_log[b].key[2]})
          => ~ insert_team_log[a].ok
    /\ \A a, b \in 1..Len(insert_player_log) :
          (a < b /\ insert_player_log[a].name = insert_player_log[b].name)
          => ~ insert_player_log[a].ok
    /\ FailedCallAddsNothing

\* "a + b" created the team, then "b + a" got the same id without an insert,
\* and a call whose team insert raised returned None
C29_Witness ==
    /\ Len(team_id_log) = 3
    /\ team_id_log[1].team_name = NameB \o Plus \o NameC
    /\ team_id_log[1].failed
    /\ Len(insert_team_log) = 2
    /\ team_id_log[2].team_name = NameA \o Plus \o NameB
    /\ team_id_log[2].ret # None
    /\ team_id_log[3].team_name = NameB \o Plus \o NameA
    /\ team_id_log[3].ret = team_id_log[2].ret
    /\ DOMAIN team_id_map = {<<NameA, NameB>>}

----------------------------------------------------------------------------
(* Match.score as a query *)

\* C30 (as claimed): a read of Match.score leaves the Match as it was: its
\* score fields, its games and its winner.
C30_ScoreReadLeavesMatch ==
    [][(score_read = None /\ score_read' # None) => match' = match]_vars

====
